---------------------------- MODULE Spec2Model ----------------------------
(***************************************************************************)
(* Zephyr Edge AI demo: the windowed preprocessor (src/ml/preprocessing.c),*)
(* the result ring buffer (src/output/ring_buffer.c), the ml_sem gate and  *)
(* the four pipeline threads of the main application.                      *)
(*                                                                         *)
(* Three families of behaviours are described:                             *)
(*   SpecPre    a caller drives the preprocessing API in any order;        *)
(*   SpecQueue  a caller drives the result_buffer API in any order;        *)
(*   Spec       the sensor, ML, output and debug threads run interleaved   *)
(*              (SpecLive adds the scheduler's fairness).                  *)
(* Variables a family does not use keep their initial value.               *)
(*                                                                         *)
(* Floating point: dc_offset is held in fixed point, in hundredths of a    *)
(* raw unit, and every float-to-int conversion truncates toward zero as    *)
(* the C cast does.                                                        *)
(***************************************************************************)
EXTENDS Integers, Sequences, FiniteSets, TLC

(***************************************************************************)
(* Configuration.  The Kconfig defaults are 50 samples per window and 16   *)
(* queue slots; the code is uniform in both, and the model runs it with    *)
(* small values.                                                           *)
(***************************************************************************)
CONFIG_ML_INFERENCE_WINDOW_SIZE == 2

CONFIG_OUTPUT_RING_BUFFER_SIZE == 2

ML_INPUT_AXES == 3

ML_INPUT_SIZE == ML_INPUT_AXES * CONFIG_ML_INFERENCE_WINDOW_SIZE

\* How many samples a caller (SpecPre) feeds at most.
MaxFeed == 5

\* How many computations a caller (SpecMl) lets succeed, and how many fail
\* between two resets of the statistics.
MaxInfer == 3

\* How many stack warnings debug_monitor_check counts at most (SpecMon).
MaxWarnings == 2

\* src/debug/debug_monitor.c
STACK_WARNING_THRESHOLD == 80

\* The slots of monitored[].  The code has 4 and is uniform in the number;
\* the model runs the table with 2.
MAX_MONITORED_THREADS == 2

\* How many durations a caller (SpecTime) records at most between two resets.
MaxRecord == 3

\* The uptime in milliseconds up to which SpecMock follows the mock sensor:
\* long enough for four gestures to start.
MaxUptime == 14000

\* How many results a caller (SpecQueue) pushes at most between two inits.
MaxPush == 4

\* How many samples the sensor delivers at most in a pipeline run.
MaxSamples == 4

\* K_SEM_DEFINE(ml_sem, 0, 1): the semaphore's count limit
ML_SEM_LIMIT == 1

Threads == {"sensor", "ml", "output", "debug"}

\* the threads that call into debug_monitor.c
MonThreads == {"output", "debug"}

Mutexes == {"sensor_mutex", "preprocess_mutex", "ml_mutex", "buffer_mutex"}

\* errno values returned negated by the code
ERR == [EINVAL |-> 22, EAGAIN |-> 11, ENOSPC |-> 28, ENODEV |-> 19]

RetCodes == {0, -ERR.EINVAL, -ERR.EAGAIN, -ERR.ENOSPC}

\* A NULL pointer argument.
NULL == [null |-> TRUE]

\* a non-NULL pointer to the caller's own result variable
OutArg == [null |-> FALSE]

\* The raw readings (x, y, z) the sample source delivers.
SampleValues == { <<0, 0, 8192>>, <<32767, -32768, 8192>> }

accel_sample(v, t) == [x |-> v[1], y |-> v[2], z |-> v[3], timestamp_us |-> t]

ZeroSample == accel_sample(<<0, 0, 0>>, 0)

\* The readings the sensor delivers in a pipeline run (the device at rest);
\* no pipeline property looks at the values.
SensorReadings == { <<0, 0, 8192>> }

\* The gesture the engine reports in a pipeline run.
EngineGestures == {0}

\* gesture_label_t values an engine reports (GESTURE_IDLE, GESTURE_WAVE)
Gestures == {0, 1}

inference_result(g, n) == [gesture |-> g, sequence |-> n]

ZeroResult == inference_result(0, 0)

VARIABLES
    \* src/ml/preprocessing.c
    sample_window,      \* 0..WINDOW_SIZE-1 -> accel_sample
    window_pos,
    window_ready,
    dc_offset,          \* <<x, y, z>> in hundredths
    initialized,
    \* the caller of the preprocessing API (SpecPre)
    clock,              \* timestamps handed out so far
    input_buffer,       \* the caller's int8_t buffer (ml_thread_fn's local)
    pre_ret,            \* what the last preprocessing call returned
    \* history of the preprocessing API
    fed,                \* samples appended since preprocessing_init
    h_added,            \* appends since the last init / clear
    h_consumedAt,       \* h_added at the last successful get_input
    h_completed,        \* windows completed since the last init / clear
    h_readyAt,          \* timestamp of the append that turned window_ready on
    h_produced,         \* successful get_input calls since the last init / clear
    h_lastCall,         \* the API function called last
    h_outArg,           \* the arguments of the last preprocessing_get_input
    outputs,            \* one record per successful get_input
    \* src/output/ring_buffer.c
    buffer,             \* 0..RING_BUFFER_SIZE-1 -> inference_result_t
    head,
    tail,
    count,
    \* the callers of the result_buffer API
    out_result,         \* the result pop copies out (output_thread_fn's local)
    q_ret,              \* what the last result_buffer call returned
    \* history of the result_buffer API
    q_pushed,           \* results stored by push since result_buffer_init
    q_popped,           \* results returned by pop since result_buffer_init
    h_qCall,            \* the result_buffer function called last
    h_qArg,             \* the result handed to the last push (NULL if none)
    h_dropCand,         \* the scalar statics that have behaved as a dropped counter so far
    \* src/ml/inference.cpp
    ml_initialized,
    use_mock_inference,
    inference_sequence,
    ml_stats,           \* [inference_count, invoke_failures]
    \* the caller of the inference API and its history
    ml_ret,             \* what the last inference call returned
    h_mlCall,           \* the inference function called last
    h_okCount,          \* ml_run_inference calls that returned ML_STATUS_OK
    \* src/debug/debug_monitor.c and the two threads inside its functions
    peak_usage,         \* monitored[0].peak_usage (the registered ml_thread)
    total_stack_warnings,
    mon_pc,             \* thread -> where it stands in a debug_monitor function
    mon_used,           \* thread -> its local used (get_stats) / percent over threshold (check)
    \* src/debug/debug_monitor.c: the registry, its caller and its history
    monitored,          \* 0..MAX_MONITORED_THREADS-1 -> struct monitored_thread
    monitored_count,
    monitor_initialized,
    mon_ret,            \* what the last debug_monitor call returned
    mon_stats,          \* the debug_stats_t the last call filled (NoStats: none)
    h_monCall,          \* the debug_monitor function called last
    h_monArg,           \* the thread and name the last call registered (NoArg: none)
    h_read,             \* thread -> what k_thread_stack_space_get gave the last call
    \* src/debug/timing.c, the caller of the timing API and its history
    cycles_per_us,
    timing_initialized,
    t_start,            \* the cycle count profile_timing_start returned last
    t_end,              \* the cycle count the last profile_timing_end read
    t_elapsed,          \* elapsed_cycles of the last profile_timing_end
    t_ret,              \* what the last profile_timing_end returned
    timing_stats,       \* the caller's timing_stats_t
    h_durations,        \* the durations recorded since the last reset
    h_timeCall,         \* the timing function called last
    \* src/sensor/mock_accel.c, the caller of the mock sensor and its history
    mock_initialized,
    current_gesture,
    gesture_start_time,
    next_gesture_time,
    gesture_sequence_index,
    uptime,             \* k_uptime_get_32(), in milliseconds
    mock_ret,           \* what the last mock_accel call returned
    mock_pattern,       \* the generator the last mock_accel_read filled the sample with
    h_started,          \* the gestures started since mock_accel_init, in order
    h_mockCall,         \* the mock_accel function called last
    \* the main application: gate, shutdown flag, mutexes, the four threads
    ml_sem,             \* count of K_SEM_DEFINE(ml_sem, 0, 1)
    running,
    mutex,              \* mutex name -> the thread holding it, or "none"
    pc,                 \* thread -> where it stands in its function
    s_sample,           \* sensor_thread_fn's local sample
    m_result,           \* ml_thread_fn's local result
    \* history of the pipeline
    h_gives,            \* k_sem_give calls since the last wait that returned 0 (2: two or more)
    h_wakes,            \* waits that returned 0 since the last k_sem_give
    h_coalesced,        \* h_gives as the last wait that returned 0 found it
    h_lastWait,         \* how the last k_sem_take ended
    h_iterCompleted,    \* the sensor iteration's add_sample completed a window
    h_iterGave,         \* the sensor iteration called k_sem_give
    h_midWait,          \* the flag was cleared while ml_thread_fn was blocked in the wait
    h_pushedAfterStop,  \* results pushed by ml_thread_fn after the flag was cleared
    h_checksAfterStop,  \* thread -> loop conditions evaluated after the flag was cleared
    h_outIter,          \* what output_thread_fn has called in its current iteration
    h_sink              \* the results handed to uart_output_inference so far

preVars == <<sample_window, window_pos, window_ready, dc_offset, initialized>>
preCaller == <<clock, input_buffer, pre_ret>>
preHist == <<fed, h_added, h_consumedAt, h_completed, h_readyAt, h_produced,
            h_lastCall, h_outArg, outputs>>

queueVars == <<buffer, head, tail, count>>
queueCaller == <<out_result, q_ret>>
queueHist == <<q_pushed, q_popped, h_qCall, h_qArg, h_dropCand>>

mlVars == <<ml_initialized, use_mock_inference, inference_sequence, ml_stats>>
mlCaller == <<ml_ret, h_mlCall, h_okCount>>
monVars == <<peak_usage, total_stack_warnings, mon_pc, mon_used>>
regVars == <<monitored, monitored_count, monitor_initialized, mon_ret, mon_stats,
            h_monCall, h_monArg, h_read>>
timeVars == <<cycles_per_us, timing_initialized, t_start, t_end, t_elapsed, t_ret,
             timing_stats, h_durations, h_timeCall>>
mockVars == <<mock_initialized, current_gesture, gesture_start_time,
             next_gesture_time, gesture_sequence_index, uptime, mock_ret,
             mock_pattern, h_started, h_mockCall>>
pipeVars == <<ml_sem, running, mutex, pc, s_sample, m_result>>
outHist == <<h_outIter, h_sink>>
pipeHist == <<h_gives, h_wakes, h_coalesced, h_lastWait, h_iterCompleted,
             h_iterGave, h_midWait, h_pushedAfterStop, h_checksAfterStop, outHist>>

apiVars == <<preVars, preCaller, preHist, queueVars, queueCaller, queueHist>>

vars == <<preVars, preCaller, preHist, queueVars, queueCaller, queueHist,
          mlVars, mlCaller, monVars, regVars, timeVars, mockVars, pipeVars, pipeHist>>

WindowIdx == 0 .. (CONFIG_ML_INFERENCE_WINDOW_SIZE - 1)

(***************************************************************************)
(* Arithmetic of the preprocessing code.                                   *)
(***************************************************************************)
\* (int32_t) of a float n/d: truncation toward zero
Trunc(n, d) == IF n >= 0 THEN n \div d ELSE -((-n) \div d)

\* dc = DC_FILTER_ALPHA * dc + (1 - DC_FILTER_ALPHA) * raw, ALPHA = 0.95
DcFilter(dc, raw) == Trunc(95 * dc + 5 * (100 * raw), 100)

DcInitial == <<0, 0, 819200>>

\* (int32_t)((raw - dc) * QUANT_SCALE), QUANT_SCALE = 127 / 16384
QuantScale(raw, dc) == Trunc((100 * raw - dc) * 127, 16384 * 100)

\* the cast (int8_t)q without the clamp before it: the low 8 bits of q
ClampInt8_wrap(q) == ((q + 128) % 256) - 128

ClampInt8(q) == IF q < -128 THEN -128 ELSE IF q > 127 THEN 127 ELSE q

Quantize(raw, dc) == ClampInt8(QuantScale(raw, dc))

\* The loop of preprocessing_get_input over a window w (0-based) with offsets dc:
\* output[3i], output[3i+1], output[3i+2] = quantized x, y, z of sample i.
QuantizeWindow(w, dc) ==
    [k \in 0 .. (ML_INPUT_SIZE - 1) |->
        LET s == w[k \div ML_INPUT_AXES]
            a == k % ML_INPUT_AXES
        IN  IF a = 0 THEN Quantize(s.x, dc[1])
            ELSE IF a = 1 THEN Quantize(s.y, dc[2])
            ELSE Quantize(s.z, dc[3])]

\* the caller's output array before anything was written to it
EmptyOut == [k \in 0 .. (ML_INPUT_SIZE - 1) |-> 0]

(***************************************************************************)
(* src/ml/preprocessing.c.  Each function is one action over preVars (the  *)
(* body runs under preprocess_mutex); r is the value it returns.           *)
(***************************************************************************)
preprocessing_init ==
    /\ window_pos' = 0
    /\ window_ready' = FALSE
    /\ dc_offset' = DcInitial
    /\ sample_window' = [i \in WindowIdx |-> ZeroSample]
    /\ initialized' = TRUE

\* preprocessing_add_sample declaring the window complete one sample early
preprocessing_add_sample_early(sample, r) ==
    IF ~initialized \/ sample = NULL
    THEN /\ r = -ERR.EINVAL
         /\ UNCHANGED preVars
    ELSE /\ r = 0
         /\ dc_offset' = << DcFilter(dc_offset[1], sample.x),
                            DcFilter(dc_offset[2], sample.y),
                            DcFilter(dc_offset[3], sample.z) >>
         /\ sample_window' = [sample_window EXCEPT ![window_pos] = sample]
         /\ IF window_pos + 1 >= CONFIG_ML_INFERENCE_WINDOW_SIZE - 1
            THEN window_ready' = TRUE /\ window_pos' = 0
            ELSE window_pos' = window_pos + 1 /\ UNCHANGED window_ready
         /\ UNCHANGED initialized

preprocessing_add_sample(sample, r) ==
    IF ~initialized \/ sample = NULL
    THEN /\ r = -ERR.EINVAL
         /\ UNCHANGED preVars
    ELSE /\ r = 0
         /\ dc_offset' = << DcFilter(dc_offset[1], sample.x),
                            DcFilter(dc_offset[2], sample.y),
                            DcFilter(dc_offset[3], sample.z) >>
         /\ sample_window' = [sample_window EXCEPT ![window_pos] = sample]
         /\ IF window_pos + 1 >= CONFIG_ML_INFERENCE_WINDOW_SIZE
            THEN window_ready' = TRUE /\ window_pos' = 0
            ELSE window_pos' = window_pos + 1 /\ UNCHANGED window_ready
         /\ UNCHANGED initialized

\* ready is the value the function returns
preprocessing_window_ready(ready) ==
    /\ ready = window_ready
    /\ UNCHANGED preVars

\* output_null: the caller passed NULL; otherwise output is input_buffer, the
\* caller's int8_t array, which the loop fills
\* a get_input that leaves window_ready set after a successful take
preprocessing_get_input_keep_ready(output_null, output_size, r) ==
    IF output_null
    THEN r = -ERR.EINVAL /\ UNCHANGED <<preVars, input_buffer>>
    ELSE IF output_size < ML_INPUT_SIZE
    THEN r = -ERR.ENOSPC /\ UNCHANGED <<preVars, input_buffer>>
    ELSE IF ~window_ready
    THEN r = -ERR.EAGAIN /\ UNCHANGED <<preVars, input_buffer>>
    ELSE /\ r = 0
         /\ input_buffer' = QuantizeWindow(sample_window, dc_offset)
         /\ UNCHANGED preVars

\* a get_input that looks at window_ready before it looks at output_size
preprocessing_get_input_ready_first(output_null, output_size, r) ==
    IF output_null
    THEN r = -ERR.EINVAL /\ UNCHANGED <<preVars, input_buffer>>
    ELSE IF ~window_ready
    THEN r = -ERR.EAGAIN /\ UNCHANGED <<preVars, input_buffer>>
    ELSE IF output_size < ML_INPUT_SIZE
    THEN r = -ERR.ENOSPC /\ window_ready' = FALSE
         /\ UNCHANGED <<sample_window, window_pos, dc_offset, initialized,
                        input_buffer>>
    ELSE /\ r = 0
         /\ input_buffer' = QuantizeWindow(sample_window, dc_offset)
         /\ window_ready' = FALSE
         /\ UNCHANGED <<sample_window, window_pos, dc_offset, initialized>>

\* a get_input that clears the caller's buffer before it looks at window_ready
preprocessing_get_input_clear_first(output_null, output_size, r) ==
    IF output_null
    THEN r = -ERR.EINVAL /\ UNCHANGED <<preVars, input_buffer>>
    ELSE IF output_size < ML_INPUT_SIZE
    THEN r = -ERR.ENOSPC /\ UNCHANGED <<preVars, input_buffer>>
    ELSE IF ~window_ready
    THEN r = -ERR.EAGAIN /\ input_buffer' = EmptyOut /\ UNCHANGED preVars
    ELSE /\ r = 0
         /\ input_buffer' = QuantizeWindow(sample_window, dc_offset)
         /\ window_ready' = FALSE
         /\ UNCHANGED <<sample_window, window_pos, dc_offset, initialized>>

preprocessing_get_input(output_null, output_size, r) ==
    IF output_null
    THEN r = -ERR.EINVAL /\ UNCHANGED <<preVars, input_buffer>>
    ELSE IF output_size < ML_INPUT_SIZE
    THEN r = -ERR.ENOSPC /\ UNCHANGED <<preVars, input_buffer>>
    ELSE IF ~window_ready
    THEN r = -ERR.EAGAIN /\ UNCHANGED <<preVars, input_buffer>>
    ELSE /\ r = 0
         /\ input_buffer' = QuantizeWindow(sample_window, dc_offset)
         /\ window_ready' = FALSE
         /\ UNCHANGED <<sample_window, window_pos, dc_offset, initialized>>

preprocessing_clear_window ==
    /\ window_pos' = 0
    /\ window_ready' = FALSE
    /\ sample_window' = [i \in WindowIdx |-> ZeroSample]
    /\ UNCHANGED <<dc_offset, initialized>>

\* fill is the value the function returns
preprocessing_get_window_fill(fill) ==
    /\ fill = window_pos
    /\ UNCHANGED preVars

(***************************************************************************)
(* src/output/ring_buffer.c.  Each function is one action over queueVars   *)
(* (the body runs under buffer_mutex); r is the value it returns.          *)
(***************************************************************************)
SlotIdx == 0 .. (CONFIG_OUTPUT_RING_BUFFER_SIZE - 1)

\* the scalar statics of ring_buffer.c: the module keeps nothing else beside buffer
QueueScalars == {"head", "tail", "count"}

QueueScalar(v) == IF v = "head" THEN head ELSE IF v = "tail" THEN tail ELSE count

QueueScalarNext(v) == IF v = "head" THEN head' ELSE IF v = "tail" THEN tail' ELSE count'

\* the statics that, over this call too, moved as a dropped counter would:
\* up by one when the call evicted an entry, not at all otherwise
DropCandAfter(evicted) ==
    {v \in h_dropCand :
        QueueScalarNext(v) = QueueScalar(v) + (IF evicted THEN 1 ELSE 0)}

result_buffer_init ==
    /\ head' = 0
    /\ tail' = 0
    /\ count' = 0
    /\ buffer' = [i \in SlotIdx |-> ZeroResult]

\* result_buffer_push as ring_buffer.h documents it: a full buffer rejects
result_buffer_push_reject(result, r) ==
    IF result = NULL
    THEN r = -ERR.EINVAL /\ UNCHANGED queueVars
    ELSE IF count >= CONFIG_OUTPUT_RING_BUFFER_SIZE
    THEN r = -ERR.ENOSPC /\ UNCHANGED queueVars
    ELSE /\ r = 0
         /\ buffer' = [buffer EXCEPT ![head] = result]
         /\ head' = (head + 1) % CONFIG_OUTPUT_RING_BUFFER_SIZE
         /\ count' = count + 1
         /\ UNCHANGED tail

\* result_buffer_push evicting the oldest entry but reporting the full buffer
result_buffer_push_report_full(result, r) ==
    IF result = NULL
    THEN r = -ERR.EINVAL /\ UNCHANGED queueVars
    ELSE LET full == count >= CONFIG_OUTPUT_RING_BUFFER_SIZE
         IN  /\ r = IF full THEN -ERR.ENOSPC ELSE 0
             /\ tail' = IF full THEN (tail + 1) % CONFIG_OUTPUT_RING_BUFFER_SIZE
                        ELSE tail
             /\ buffer' = [buffer EXCEPT ![head] = result]
             /\ head' = (head + 1) % CONFIG_OUTPUT_RING_BUFFER_SIZE
             /\ count' = (IF full THEN count - 1 ELSE count) + 1

\* result_buffer_push storing into a full buffer without dropping the oldest
result_buffer_push_no_evict(result, r) ==
    IF result = NULL
    THEN r = -ERR.EINVAL /\ UNCHANGED queueVars
    ELSE /\ r = 0
         /\ buffer' = [buffer EXCEPT ![head] = result]
         /\ head' = (head + 1) % CONFIG_OUTPUT_RING_BUFFER_SIZE
         /\ count' = count + 1
         /\ UNCHANGED tail

result_buffer_push(result, r) ==
    IF result = NULL
    THEN r = -ERR.EINVAL /\ UNCHANGED queueVars
    ELSE LET full == count >= CONFIG_OUTPUT_RING_BUFFER_SIZE
         IN  /\ r = 0
             /\ tail' = IF full THEN (tail + 1) % CONFIG_OUTPUT_RING_BUFFER_SIZE
                        ELSE tail
             /\ buffer' = [buffer EXCEPT ![head] = result]
             /\ head' = (head + 1) % CONFIG_OUTPUT_RING_BUFFER_SIZE
             /\ count' = (IF full THEN count - 1 ELSE count) + 1

\* result_buffer_pop reading at head - 1: the newest entry instead of the oldest
result_buffer_pop_newest(result_null, r) ==
    IF result_null
    THEN r = -ERR.EINVAL /\ UNCHANGED <<queueVars, out_result>>
    ELSE IF count = 0
    THEN r = -ERR.EAGAIN /\ UNCHANGED <<queueVars, out_result>>
    ELSE LET last == (head + CONFIG_OUTPUT_RING_BUFFER_SIZE - 1)
                        % CONFIG_OUTPUT_RING_BUFFER_SIZE
         IN  /\ r = 0
             /\ out_result' = buffer[last]
             /\ head' = last
             /\ count' = count - 1
             /\ UNCHANGED <<buffer, tail>>

\* result_buffer_pop clearing *result before it finds the buffer empty
result_buffer_pop_clear_first(result_null, r) ==
    IF result_null
    THEN r = -ERR.EINVAL /\ UNCHANGED <<queueVars, out_result>>
    ELSE IF count = 0
    THEN r = -ERR.EAGAIN /\ out_result' = ZeroResult /\ UNCHANGED queueVars
    ELSE /\ r = 0
         /\ out_result' = buffer[tail]
         /\ tail' = (tail + 1) % CONFIG_OUTPUT_RING_BUFFER_SIZE
         /\ count' = count - 1
         /\ UNCHANGED <<buffer, head>>

\* result_null: the caller passed NULL; otherwise *result is out_result
result_buffer_pop(result_null, r) ==
    IF result_null
    THEN r = -ERR.EINVAL /\ UNCHANGED <<queueVars, out_result>>
    ELSE IF count = 0
    THEN r = -ERR.EAGAIN /\ UNCHANGED <<queueVars, out_result>>
    ELSE /\ r = 0
         /\ out_result' = buffer[tail]
         /\ tail' = (tail + 1) % CONFIG_OUTPUT_RING_BUFFER_SIZE
         /\ count' = count - 1
         /\ UNCHANGED <<buffer, head>>

result_buffer_empty(empty) ==
    /\ empty = (count = 0)
    /\ UNCHANGED queueVars

result_buffer_full(full) ==
    /\ full = (count >= CONFIG_OUTPUT_RING_BUFFER_SIZE)
    /\ UNCHANGED queueVars

result_buffer_count(cnt) ==
    /\ cnt = count
    /\ UNCHANGED queueVars


(***************************************************************************)
(* src/debug/debug_monitor.c: the registry of monitored threads.  Each      *)
(* function is one action over the statics (the functions take no lock;    *)
(* here one caller runs them one at a time); r is the value it returns.    *)
(* CONFIG_THREAD_STACK_INFO is on (docs/ARCHITECTURE.md);                  *)
(* CONFIG_SCHED_THREAD_USAGE is not set anywhere, so get_stats leaves      *)
(* last_check_time and last_cpu_cycles alone and reports 0 percent.        *)
(***************************************************************************)
\* a NULL struct k_thread * or const char *
NullPtr == "NULL"

\* the struct k_thread objects a caller registers; each is registered under
\* its own name
MonitorableThreads == {"ml_thread", "sensor_thread"}

\* thread->stack_info.size: ML_STACK_SIZE, SENSOR_STACK_SIZE
StackSize(t) == IF t = "ml_thread" THEN 4096 ELSE 1024

\* what k_thread_stack_space_get(thread, &unused) can give: a failure, or 0
\* with size - unused being one of a few byte counts (3300 of 4096 is 80.57
\* percent)
StackReads(t) ==
    {[ret |-> -ERR.EINVAL, used |-> 0]}
      \cup {[ret |-> 0, used |-> u] :
              u \in IF t = "ml_thread" THEN {1000, 3300, 3700} ELSE {900}}

\* one pass: what each thread's stack gives when the pass reads it
PassReads == {rd \in [MonitorableThreads -> UNION {StackReads(t) : t \in MonitorableThreads}] :
                \A t \in MonitorableThreads : rd[t] \in StackReads(t)}

MonIdx == 0 .. (MAX_MONITORED_THREADS - 1)

\* a slot of monitored[] as the image is loaded
NoEntry == [thread |-> NullPtr, name |-> NullPtr, stack_size |-> 0, peak_usage |-> 0]

NoStats == [ml_stack_size |-> 0, ml_stack_used |-> 0, stack_warnings |-> 0]

NoArg == [thread |-> NullPtr, name |-> NullPtr]

\* no stack was read
NoReads == [t \in MonitorableThreads |-> [ret |-> -ERR.EINVAL, used |-> 0]]

\* the slots the loops of get_stats and check look at
Registered == {i \in MonIdx : i < monitored_count /\ monitored[i].thread # NullPtr}

debug_monitor_init(r) ==
    IF monitor_initialized
    THEN r = 0 /\ UNCHANGED <<monitored, monitored_count, monitor_initialized,
                              total_stack_warnings>>
    ELSE /\ r = 0
         /\ monitored_count' = 0
         /\ total_stack_warnings' = 0
         /\ monitor_initialized' = TRUE
         /\ UNCHANGED monitored

\* a register_thread that takes a fifth thread by reusing the last slot
debug_monitor_register_thread_reuse(thread, name, r) ==
    IF thread = NullPtr \/ name = NullPtr
    THEN r = -ERR.EINVAL
         /\ UNCHANGED <<monitored, monitored_count, monitor_initialized,
                        total_stack_warnings>>
    ELSE LET slot == IF monitored_count >= MAX_MONITORED_THREADS
                     THEN MAX_MONITORED_THREADS - 1 ELSE monitored_count
         IN  /\ r = 0
             /\ monitored' = [monitored EXCEPT ![slot] =
                                 [thread |-> thread, name |-> name,
                                  stack_size |-> 0, peak_usage |-> 0]]
             /\ monitored_count' = slot + 1
             /\ UNCHANGED <<monitor_initialized, total_stack_warnings>>

debug_monitor_register_thread(thread, name, r) ==
    IF thread = NullPtr \/ name = NullPtr
    THEN r = -ERR.EINVAL
         /\ UNCHANGED <<monitored, monitored_count, monitor_initialized,
                        total_stack_warnings>>
    ELSE IF monitored_count >= MAX_MONITORED_THREADS
    THEN r = -ERR.ENOSPC
         /\ UNCHANGED <<monitored, monitored_count, monitor_initialized,
                        total_stack_warnings>>
    ELSE /\ r = 0
         /\ monitored' = [monitored EXCEPT ![monitored_count] =
                             [thread |-> thread, name |-> name,
                              stack_size |-> 0, peak_usage |-> 0]]
         /\ monitored_count' = monitored_count + 1
         /\ UNCHANGED <<monitor_initialized, total_stack_warnings>>

\* the slots whose name is "ml_thread" and whose stack the pass could read
MlSlots(rd) == {i \in Registered : rd[monitored[i].thread].ret = 0
                                     /\ monitored[i].name = "ml_thread"}

\* What get_stats writes into *stats.  Of the fields of debug_stats_t the
\* model keeps those taken from the registry; uptime_ms, stack_used and
\* stack_size copy the clock and the caller's own stack.
StatsWritten(rd) ==
    IF MlSlots(rd) = {}
    THEN [ml_stack_size |-> 0, ml_stack_used |-> 0,
          stack_warnings |-> total_stack_warnings]
    ELSE [ml_stack_size |-> StackSize("ml_thread"),
          ml_stack_used |-> rd["ml_thread"].used,
          stack_warnings |-> total_stack_warnings]

\* stats_null: the caller passed NULL; otherwise *stats becomes StatsWritten(rd)
debug_monitor_get_stats(stats_null, rd, r) ==
    IF stats_null
    THEN r = -ERR.EINVAL
         /\ UNCHANGED <<monitored, monitored_count, monitor_initialized,
                        total_stack_warnings>>
    ELSE /\ r = 0
         /\ monitored' =
              [i \in MonIdx |->
                 IF i \in Registered /\ rd[monitored[i].thread].ret = 0
                      /\ rd[monitored[i].thread].used > monitored[i].peak_usage
                 THEN [monitored[i] EXCEPT
                         !.peak_usage = rd[monitored[i].thread].used]
                 ELSE monitored[i]]
         /\ UNCHANGED <<monitored_count, monitor_initialized, total_stack_warnings>>

\* (used * 100) / stack_size, or 0 when the stack cannot be read.  The
\* product stays far below 2^32 for the stacks of this application (1 to
\* 4 KiB), so size_t arithmetic does not wrap.
debug_get_stack_percent(thread, rd) ==
    IF rd[thread].ret # 0 THEN 0
    ELSE IF StackSize(thread) = 0 THEN 0
    ELSE (rd[thread].used * 100) \div StackSize(thread)

\* the slots for which the pass of debug_monitor_check raises a warning
OverThreshold(rd) ==
    {i \in Registered :
        debug_get_stack_percent(monitored[i].thread, rd) > STACK_WARNING_THRESHOLD}

debug_monitor_check(rd, r) ==
    IF ~monitor_initialized
    THEN r = -ERR.EINVAL
         /\ UNCHANGED <<monitored, monitored_count, monitor_initialized,
                        total_stack_warnings>>
    ELSE LET issues == Cardinality(OverThreshold(rd))
         IN  /\ total_stack_warnings' = total_stack_warnings + issues
             /\ r = (IF issues > 0 THEN -ERR.ENOSPC ELSE 0)
             /\ UNCHANGED <<monitored, monitored_count, monitor_initialized>>

\* healthy is the value the function returns
debug_monitor_healthy(rd, healthy) ==
    \E r \in RetCodes :
       /\ debug_monitor_check(rd, r)
       /\ healthy = (r = 0)

\* What the monitor keeps or reports that depends on a thread's stack usage:
\* the warning count and the ML stack bytes of debug_stats_t, and the peak
\* bytes of the thread's registry entry.
SnapshotFields == {"stack_warnings", "ml_stack_used", "peak_usage"}

\* field f, as a get_stats call leaves it, shows slot i over the threshold
SnapshotReportsNext(f, i) ==
    CASE f = "stack_warnings" -> mon_stats'.stack_warnings > 0
      [] f = "ml_stack_used" ->
            /\ monitored'[i].name = "ml_thread"
            /\ mon_stats'.ml_stack_size > 0
            /\ (mon_stats'.ml_stack_used * 100) \div mon_stats'.ml_stack_size
                  > STACK_WARNING_THRESHOLD
      [] f = "peak_usage" ->
            (monitored'[i].peak_usage * 100) \div StackSize(monitored'[i].thread)
                  > STACK_WARNING_THRESHOLD

(***************************************************************************)
(* src/debug/timing.c.  A uint32_t is held as the pair <<high, low>> of    *)
(* its 16-bit halves, and the operators below are the C operators on       *)
(* uint32_t (they wrap at 2^32).                                           *)
(***************************************************************************)
HALF == 65536

U32(high, low) == <<high, low>>

Zero32 == U32(0, 0)

UINT32_MAX == U32(HALF - 1, HALF - 1)

\* a + b
Add32(a, b) ==
    LET lo == a[2] + b[2]
        hi == a[1] + b[1] + (lo \div HALF)
    IN  U32(hi % HALF, lo % HALF)

\* a - b
Sub32(a, b) ==
    LET lo == a[2] - b[2]
        hi == a[1] - b[1] - (IF lo < 0 THEN 1 ELSE 0)
    IN  U32(hi % HALF, lo % HALF)

\* a >= b
Ge32(a, b) == a[1] > b[1] \/ (a[1] = b[1] /\ a[2] >= b[2])

\* a / d, for a divisor below 2^15
Div32(a, d) == U32(a[1] \div d, ((a[1] % d) * HALF + a[2]) \div d)

\* x * n, for a factor below 2^15
Mul32(x, n) ==
    LET lo == x[2] * n
        hi == x[1] * n + (lo \div HALF)
    IN  U32(hi % HALF, lo % HALF)

\* The values k_cycle_get_32 returns at the calls of a run.
CycleValues == { U32(0, 0), U32(0, 1), U32(0, 1000), U32(1, 0), U32(32767, 65535),
                 U32(32768, 0), U32(65535, 65534), U32(65535, 65535) }

\* sys_clock_hw_cycles_per_sec(): a 32768 Hz clock, 1 MHz, and the 25 MHz of
\* the mps2/an385
ClockRates == {32768, 1000000, 25000000}

\* The durations a caller records.
Durations == {0, 3, 8}

ZeroStats == [min_us |-> 0, max_us |-> 0, avg_us |-> 0, count |-> 0, total_us |-> 0]

profile_timing_init(freq) ==
    IF timing_initialized
    THEN UNCHANGED <<cycles_per_us, timing_initialized>>
    ELSE /\ cycles_per_us' = IF freq \div 1000000 = 0 THEN 1 ELSE freq \div 1000000
         /\ timing_initialized' = TRUE

\* r is the value the function returns: what k_cycle_get_32 reads
profile_timing_start(r) ==
    /\ r \in CycleValues
    /\ UNCHANGED <<cycles_per_us, timing_initialized>>

\* elapsed_cycles taken as end_cycles - start_cycles whatever their order, left
\* as a plain difference of the two halves
ElapsedCycles_no_wrap(start_cycles, end_cycles) ==
    IF Ge32(end_cycles, start_cycles)
    THEN Sub32(end_cycles, start_cycles)
    ELSE Sub32(start_cycles, end_cycles)

\* elapsed_cycles of profile_timing_end, end_cycles being what k_cycle_get_32
\* reads
ElapsedCycles(start_cycles, end_cycles) ==
    IF Ge32(end_cycles, start_cycles)
    THEN Sub32(end_cycles, start_cycles)
    ELSE Add32(Add32(Sub32(UINT32_MAX, start_cycles), end_cycles), U32(0, 1))

\* the value the function returns; it writes nothing
profile_timing_end(start_cycles, end_cycles) ==
    IF cycles_per_us > 0
    THEN Div32(ElapsedCycles(start_cycles, end_cycles), cycles_per_us)
    ELSE ElapsedCycles(start_cycles, end_cycles)

\* stats is the caller's timing_stats (stats_null: the caller passed NULL).
\* The fields stay far below 2^32 in a run.
profile_timing_record(stats_null, duration_us) ==
    IF stats_null
    THEN UNCHANGED timing_stats
    ELSE LET cnt == timing_stats.count + 1
             total == timing_stats.total_us + duration_us
         IN  timing_stats' =
               [count |-> cnt,
                total_us |-> total,
                min_us |-> IF duration_us < timing_stats.min_us \/ timing_stats.min_us = 0
                           THEN duration_us ELSE timing_stats.min_us,
                max_us |-> IF duration_us > timing_stats.max_us
                           THEN duration_us ELSE timing_stats.max_us,
                avg_us |-> IF cnt > 0 THEN total \div cnt ELSE timing_stats.avg_us]

profile_timing_stats_reset(stats_null) ==
    IF stats_null
    THEN UNCHANGED timing_stats
    ELSE timing_stats' = ZeroStats

(***************************************************************************)
(* src/sensor/mock_accel.c.  Times are k_uptime_get_32() milliseconds; the *)
(* sample values (noise, sines) are left out, the generator that produced  *)
(* them is kept.                                                           *)
(***************************************************************************)
CONFIG_SENSOR_MOCK_GESTURE_INTERVAL_MS == 3000
GESTURE_DURATION_MS == 500

\* mock_gesture_t
MOCK_GESTURE_IDLE == 0
MOCK_GESTURE_WAVE == 1
MOCK_GESTURE_TAP == 2
MOCK_GESTURE_CIRCLE == 3
MOCK_GESTURE_COUNT == 4

\* by how many milliseconds the uptime moves between two calls
TickSteps == {250, 500, 3000}

\* gesture_sequence_index after select_next_gesture
NextSequenceIndex(index) == (index + 1) % (MOCK_GESTURE_COUNT - 1)

\* what select_next_gesture returns for the index it has just stored
select_next_gesture(index) == index + 1

mock_accel_init(r) ==
    /\ mock_initialized' = TRUE
    /\ current_gesture' = MOCK_GESTURE_IDLE
    /\ gesture_start_time' = 0
    /\ next_gesture_time' = uptime + CONFIG_SENSOR_MOCK_GESTURE_INTERVAL_MS
    /\ gesture_sequence_index' = 0
    /\ r = 0

\* the generator the switch at the end of mock_accel_read selects
Generator(g) ==
    CASE g = MOCK_GESTURE_WAVE   -> "generate_wave"
      [] g = MOCK_GESTURE_TAP    -> "generate_tap"
      [] g = MOCK_GESTURE_CIRCLE -> "generate_circle"
      [] OTHER                   -> "generate_idle"

mock_accel_read(sample_null, r) ==
    IF ~mock_initialized
    THEN /\ r = -ERR.ENODEV
         /\ UNCHANGED <<current_gesture, gesture_start_time, next_gesture_time,
                        gesture_sequence_index, mock_pattern, h_started>>
    ELSE IF sample_null
    THEN /\ r = -ERR.EINVAL
         /\ UNCHANGED <<current_gesture, gesture_start_time, next_gesture_time,
                        gesture_sequence_index, mock_pattern, h_started>>
    ELSE LET now == uptime
             starts == current_gesture = MOCK_GESTURE_IDLE /\ now >= next_gesture_time
             index == IF starts THEN NextSequenceIndex(gesture_sequence_index)
                      ELSE gesture_sequence_index
             started == IF starts THEN select_next_gesture(index) ELSE current_gesture
             start_time == IF starts THEN now ELSE gesture_start_time
             elapsed_ms == now - start_time
             completes == started # MOCK_GESTURE_IDLE /\ elapsed_ms >= GESTURE_DURATION_MS
         IN  /\ r = 0
             /\ gesture_sequence_index' = index
             /\ gesture_start_time' = start_time
             /\ current_gesture' = IF completes THEN MOCK_GESTURE_IDLE ELSE started
             /\ next_gesture_time' =
                   IF completes THEN now + CONFIG_SENSOR_MOCK_GESTURE_INTERVAL_MS
                   ELSE next_gesture_time
             /\ mock_pattern' = Generator(current_gesture')
             /\ h_started' = IF starts THEN Append(h_started, started) ELSE h_started

\* the image as loaded
InitMockVars ==
    /\ mock_initialized = FALSE
    /\ current_gesture = MOCK_GESTURE_IDLE
    /\ gesture_start_time = 0
    /\ next_gesture_time = 0
    /\ gesture_sequence_index = 0
    /\ uptime = 0
    /\ mock_ret = 0
    /\ mock_pattern = "none"
    /\ h_started = << >>
    /\ h_mockCall = "none"

\* the image as loaded, and a caller whose timing_stats_t is zeroed
InitTimeVars ==
    /\ cycles_per_us = 0
    /\ timing_initialized = FALSE
    /\ t_start = Zero32
    /\ t_end = Zero32
    /\ t_elapsed = Zero32
    /\ t_ret = Zero32
    /\ timing_stats = ZeroStats
    /\ h_durations = << >>
    /\ h_timeCall = "none"

(***************************************************************************)
(* SpecPre: a caller drives the preprocessing API in any order.  Samples   *)
(* carry the timestamps 1, 2, 3, ... in the order they are fed.            *)
(***************************************************************************)
\* dc_offset after the first n samples of fed
RECURSIVE DcAfter(_)
DcAfter(n) ==
    IF n = 0 THEN DcInitial
    ELSE LET d == DcAfter(n - 1)
         IN  << DcFilter(d[1], fed[n].x), DcFilter(d[2], fed[n].y),
                DcFilter(d[3], fed[n].z) >>

\* timestamps of the window's slots, in slot order: what get_input's loop reads
WindowStamps == [i \in WindowIdx |-> sample_window[i].timestamp_us]

InitPreVars ==
    /\ sample_window = [i \in WindowIdx |-> ZeroSample]
    /\ window_pos = 0
    /\ window_ready = FALSE
    /\ dc_offset = DcInitial
    /\ initialized = FALSE
    /\ clock = 0
    /\ input_buffer = EmptyOut
    /\ pre_ret = 0
    /\ fed = << >>
    /\ h_added = 0
    /\ h_consumedAt = 0
    /\ h_completed = 0
    /\ h_readyAt = 0
    /\ h_produced = 0
    /\ h_lastCall = "none"
    /\ h_outArg = [null |-> TRUE, size |-> 0]
    /\ outputs = << >>

CallInit ==
    /\ ~initialized
    /\ preprocessing_init
    /\ h_lastCall' = "init"
    /\ UNCHANGED h_outArg
    /\ UNCHANGED <<preCaller, fed, h_added, h_consumedAt, h_completed, h_readyAt,
                   h_produced, outputs>>

CallAddSample ==
    /\ clock < MaxFeed
    /\ \E v \in SampleValues, isNull \in BOOLEAN, r \in RetCodes :
         LET sample == IF isNull THEN NULL ELSE accel_sample(v, clock + 1)
         IN  /\ preprocessing_add_sample(sample, r)
             /\ pre_ret' = r
             /\ clock' = IF r = 0 THEN clock + 1 ELSE clock
             /\ fed' = IF r = 0 THEN Append(fed, sample) ELSE fed
             /\ h_added' = IF r = 0 THEN h_added + 1 ELSE h_added
             /\ h_completed' =
                  IF r = 0 /\ (h_added + 1) % CONFIG_ML_INFERENCE_WINDOW_SIZE = 0
                  THEN h_completed + 1 ELSE h_completed
             /\ h_readyAt' = IF ~window_ready /\ window_ready'
                             THEN clock + 1 ELSE h_readyAt
             /\ h_lastCall' = "add_sample"
             /\ UNCHANGED h_outArg
             /\ UNCHANGED <<input_buffer, h_consumedAt, h_produced, outputs>>

CallWindowReady ==
    /\ \E ready \in BOOLEAN :
         /\ preprocessing_window_ready(ready)
         /\ pre_ret' = IF ready THEN 1 ELSE 0
    /\ h_lastCall' = "window_ready"
    /\ UNCHANGED h_outArg
    /\ UNCHANGED <<clock, input_buffer, fed, h_added, h_consumedAt, h_completed,
                   h_readyAt, h_produced, outputs>>

CallGetInput ==
    /\ \E output_null \in BOOLEAN, size \in {ML_INPUT_SIZE - 1, ML_INPUT_SIZE},
          r \in RetCodes :
         /\ preprocessing_get_input(output_null, size, r)
         /\ pre_ret' = r
         /\ outputs' = IF r = 0
                       THEN Append(outputs, [buf |-> input_buffer',
                                             from |-> WindowStamps,
                                             readyAt |-> h_readyAt])
                       ELSE outputs
         /\ h_consumedAt' = IF r = 0 THEN h_added ELSE h_consumedAt
         /\ h_produced' = IF r = 0 THEN h_produced + 1 ELSE h_produced
         /\ h_outArg' = [null |-> output_null, size |-> size]
    /\ h_lastCall' = "get_input"
    /\ UNCHANGED <<clock, fed, h_added, h_completed, h_readyAt>>

CallClearWindow ==
    /\ preprocessing_clear_window
    /\ h_added' = 0
    /\ h_consumedAt' = 0
    /\ h_completed' = 0
    /\ h_readyAt' = 0
    /\ h_produced' = 0
    /\ h_lastCall' = "clear_window"
    /\ UNCHANGED h_outArg
    /\ UNCHANGED <<preCaller, fed, outputs>>

CallGetWindowFill ==
    /\ \E fill \in 0 .. CONFIG_ML_INFERENCE_WINDOW_SIZE :
         /\ preprocessing_get_window_fill(fill)
         /\ pre_ret' = fill
    /\ h_lastCall' = "get_window_fill"
    /\ UNCHANGED h_outArg
    /\ UNCHANGED <<clock, input_buffer, fed, h_added, h_consumedAt, h_completed,
                   h_readyAt, h_produced, outputs>>

InitQueueVars ==
    /\ buffer = [i \in SlotIdx |-> ZeroResult]
    /\ head = 0
    /\ tail = 0
    /\ count = 0
    /\ out_result = ZeroResult
    /\ q_ret = 0
    /\ q_pushed = << >>
    /\ q_popped = << >>
    /\ h_qCall = "none"
    /\ h_qArg = NULL
    /\ h_dropCand = QueueScalars

\* every module's statics as the image loads them, callers and histories empty
InitPipeVars ==
    /\ ml_initialized = FALSE
    /\ use_mock_inference = FALSE
    /\ inference_sequence = 0
    /\ ml_stats = [inference_count |-> 0, invoke_failures |-> 0]
    /\ ml_ret = 0
    /\ h_mlCall = "none"
    /\ h_okCount = 0
    /\ peak_usage = 0
    /\ total_stack_warnings = 0
    /\ mon_pc = [t \in MonThreads |-> "idle"]
    /\ mon_used = [t \in MonThreads |-> 0]
    /\ monitored = [i \in MonIdx |-> NoEntry]
    /\ monitored_count = 0
    /\ monitor_initialized = FALSE
    /\ mon_ret = 0
    /\ mon_stats = NoStats
    /\ h_monCall = "none"
    /\ h_monArg = NoArg
    /\ h_read = NoReads
    /\ InitTimeVars
    /\ InitMockVars
    /\ ml_sem = 0
    /\ running = TRUE
    /\ mutex = [m \in Mutexes |-> "none"]
    /\ pc = [t \in Threads |-> "unborn"]
    /\ s_sample = ZeroSample
    /\ m_result = ZeroResult
    /\ h_gives = 0
    /\ h_wakes = 0
    /\ h_coalesced = 0
    /\ h_lastWait = "none"
    /\ h_iterCompleted = FALSE
    /\ h_iterGave = FALSE
    /\ h_midWait = FALSE
    /\ h_pushedAfterStop = 0
    /\ h_checksAfterStop = [t \in Threads |-> 0]
    /\ h_outIter = << >>
    /\ h_sink = << >>

InitStatic == InitPreVars /\ InitQueueVars /\ InitPipeVars

InitPre == InitStatic

NextPre ==
    \/ (CallInit /\ UNCHANGED <<queueVars, queueCaller, queueHist, mlVars, mlCaller, monVars, regVars, timeVars, mockVars, pipeVars, pipeHist>>)
    \/ (CallAddSample /\ UNCHANGED <<queueVars, queueCaller, queueHist, mlVars, mlCaller, monVars, regVars, timeVars, mockVars, pipeVars, pipeHist>>)
    \/ (CallWindowReady /\ UNCHANGED <<queueVars, queueCaller, queueHist, mlVars, mlCaller, monVars, regVars, timeVars, mockVars, pipeVars, pipeHist>>)
    \/ (CallGetInput /\ UNCHANGED <<queueVars, queueCaller, queueHist, mlVars, mlCaller, monVars, regVars, timeVars, mockVars, pipeVars, pipeHist>>)
    \/ (CallClearWindow /\ UNCHANGED <<queueVars, queueCaller, queueHist, mlVars, mlCaller, monVars, regVars, timeVars, mockVars, pipeVars, pipeHist>>)
    \/ (CallGetWindowFill /\ UNCHANGED <<queueVars, queueCaller, queueHist, mlVars, mlCaller, monVars, regVars, timeVars, mockVars, pipeVars, pipeHist>>)

SpecPre == InitPre /\ [][NextPre]_vars

(***************************************************************************)
(* SpecQueue: a caller drives the result_buffer API in any order.  The     *)
(* n-th result pushed since the last init carries sequence number n.       *)
(***************************************************************************)
\* the entries the queue holds, oldest first
Contents == [i \in 1 .. count |->
                buffer[(tail + i - 1) % CONFIG_OUTPUT_RING_BUFFER_SIZE]]

InitQueue == InitStatic

CallBufferInit ==
    /\ result_buffer_init
    /\ q_pushed' = << >>
    /\ q_popped' = << >>
    /\ h_qCall' = "init"
    /\ h_dropCand' = QueueScalars
    /\ UNCHANGED <<queueCaller, h_qArg>>

CallPush ==
    /\ Len(q_pushed) < MaxPush
    /\ \E g \in Gestures, isNull \in BOOLEAN, r \in RetCodes :
         LET result == IF isNull THEN NULL
                       ELSE inference_result(g, Len(q_pushed) + 1)
         IN  /\ result_buffer_push(result, r)
             /\ q_ret' = r
             /\ q_pushed' = IF r = 0 THEN Append(q_pushed, result) ELSE q_pushed
             /\ h_qArg' = result
             /\ h_dropCand' = DropCandAfter(result # NULL
                                  /\ count >= CONFIG_OUTPUT_RING_BUFFER_SIZE)
    /\ h_qCall' = "push"
    /\ UNCHANGED <<out_result, q_popped>>

CallPop ==
    /\ \E result_null \in BOOLEAN, r \in RetCodes :
         /\ result_buffer_pop(result_null, r)
         /\ q_ret' = r
         /\ q_popped' = IF r = 0 THEN Append(q_popped, out_result') ELSE q_popped
         /\ h_qArg' = IF result_null THEN NULL ELSE OutArg
    /\ h_qCall' = "pop"
    /\ h_dropCand' = DropCandAfter(FALSE)
    /\ UNCHANGED q_pushed

CallEmpty ==
    /\ \E empty \in BOOLEAN :
         result_buffer_empty(empty) /\ q_ret' = IF empty THEN 1 ELSE 0
    /\ h_qCall' = "empty"
    /\ h_dropCand' = DropCandAfter(FALSE)
    /\ UNCHANGED <<out_result, q_pushed, q_popped, h_qArg>>

CallFull ==
    /\ \E full \in BOOLEAN :
         result_buffer_full(full) /\ q_ret' = IF full THEN 1 ELSE 0
    /\ h_qCall' = "full"
    /\ h_dropCand' = DropCandAfter(FALSE)
    /\ UNCHANGED <<out_result, q_pushed, q_popped, h_qArg>>

CallCount ==
    /\ \E cnt \in 0 .. CONFIG_OUTPUT_RING_BUFFER_SIZE :
         result_buffer_count(cnt) /\ q_ret' = cnt
    /\ h_qCall' = "count"
    /\ h_dropCand' = DropCandAfter(FALSE)
    /\ UNCHANGED <<out_result, q_pushed, q_popped, h_qArg>>

NextQueue ==
    \/ (CallBufferInit /\ UNCHANGED <<preVars, preCaller, preHist, mlVars, mlCaller, monVars, regVars, timeVars, mockVars, pipeVars, pipeHist>>)
    \/ (CallPush /\ UNCHANGED <<preVars, preCaller, preHist, mlVars, mlCaller, monVars, regVars, timeVars, mockVars, pipeVars, pipeHist>>)
    \/ (CallPop /\ UNCHANGED <<preVars, preCaller, preHist, mlVars, mlCaller, monVars, regVars, timeVars, mockVars, pipeVars, pipeHist>>)
    \/ (CallEmpty /\ UNCHANGED <<preVars, preCaller, preHist, mlVars, mlCaller, monVars, regVars, timeVars, mockVars, pipeVars, pipeHist>>)
    \/ (CallFull /\ UNCHANGED <<preVars, preCaller, preHist, mlVars, mlCaller, monVars, regVars, timeVars, mockVars, pipeVars, pipeHist>>)
    \/ (CallCount /\ UNCHANGED <<preVars, preCaller, preHist, mlVars, mlCaller, monVars, regVars, timeVars, mockVars, pipeVars, pipeHist>>)

SpecQueue == InitQueue /\ [][NextQueue]_vars

(***************************************************************************)
(* src/ml/inference.cpp: ml_run_inference, the body under ml_mutex.        *)
(* invoke_ok: the interpreter's Invoke() returned kTfLiteOk (always, in    *)
(* mock mode); g: the gesture the engine's scores select.                  *)
(***************************************************************************)
ML_STATUS == [OK |-> 0, NOT_INITIALIZED |-> 1, ALLOC_FAILED |-> 2,
              INVOKE_FAILED |-> 3, INVALID_INPUT |-> 4, ERROR |-> 5]

\* status: kTfLiteOk in mock mode, else what interpreter->Invoke() returned
InvokeOk(invoke_ok) == use_mock_inference \/ invoke_ok

\* best_gesture: in mock mode IDLE, WAVE at sequence % 50 = 25, TAP at 35;
\* else the class g with the highest score
BestGesture(g) ==
    IF ~use_mock_inference THEN g
    ELSE IF inference_sequence % 50 = 25 THEN 1
    ELSE IF inference_sequence % 50 = 35 THEN 2
    ELSE 0

\* ml_inference_init.  outcome: what loading the model and building the
\* interpreter run into, when the engine is not initialized yet
InitOutcomes == {"mock", "alloc_failed", "no_tensor", "ok"}

ml_inference_init(outcome, r) ==
    IF ml_initialized
    THEN r = ML_STATUS.OK /\ UNCHANGED mlVars
    ELSE IF outcome = "mock"
    THEN /\ r = ML_STATUS.OK
         /\ use_mock_inference' = TRUE
         /\ ml_initialized' = TRUE
         /\ UNCHANGED <<inference_sequence, ml_stats>>
    ELSE IF outcome = "alloc_failed"
    THEN r = ML_STATUS.ALLOC_FAILED /\ UNCHANGED mlVars
    ELSE IF outcome = "no_tensor"
    THEN r = ML_STATUS.ERROR /\ UNCHANGED mlVars
    ELSE /\ r = ML_STATUS.OK
         /\ ml_stats' = [inference_count |-> 0, invoke_failures |-> 0]
         /\ inference_sequence' = 0
         /\ ml_initialized' = TRUE
         /\ UNCHANGED use_mock_inference

ml_get_stats(stats_null, r) ==
    /\ r = IF stats_null THEN ML_STATUS.INVALID_INPUT ELSE ML_STATUS.OK
    /\ UNCHANGED mlVars

ml_reset_stats ==
    /\ ml_stats' = [inference_count |-> 0, invoke_failures |-> 0]
    /\ UNCHANGED <<ml_initialized, use_mock_inference, inference_sequence>>

\* the failure path counts too: ++inference_sequence before the status check
ml_run_inference_count_failed(input_null, invoke_ok, g, r) ==
    IF ~ml_initialized
    THEN r = ML_STATUS.NOT_INITIALIZED /\ UNCHANGED <<mlVars, m_result>>
    ELSE IF input_null
    THEN r = ML_STATUS.INVALID_INPUT /\ UNCHANGED <<mlVars, m_result>>
    ELSE IF ~InvokeOk(invoke_ok)
    THEN /\ r = ML_STATUS.INVOKE_FAILED
         /\ inference_sequence' = inference_sequence + 1
         /\ ml_stats' = [ml_stats EXCEPT !.invoke_failures = @ + 1]
         /\ UNCHANGED <<ml_initialized, use_mock_inference, m_result>>
    ELSE /\ r = ML_STATUS.OK
         /\ inference_sequence' = inference_sequence + 1
         /\ m_result' = inference_result(BestGesture(g), inference_sequence + 1)
         /\ ml_stats' = [ml_stats EXCEPT !.inference_count = @ + 1]
         /\ UNCHANGED <<ml_initialized, use_mock_inference>>

\* result->sequence = inference_sequence: the increment is missing
ml_run_inference_stale_seq(input_null, invoke_ok, g, r) ==
    IF ~ml_initialized
    THEN r = ML_STATUS.NOT_INITIALIZED /\ UNCHANGED <<mlVars, m_result>>
    ELSE IF input_null
    THEN r = ML_STATUS.INVALID_INPUT /\ UNCHANGED <<mlVars, m_result>>
    ELSE IF ~InvokeOk(invoke_ok)
    THEN /\ r = ML_STATUS.INVOKE_FAILED
         /\ ml_stats' = [ml_stats EXCEPT !.invoke_failures = @ + 1]
         /\ UNCHANGED <<ml_initialized, use_mock_inference, inference_sequence,
                        m_result>>
    ELSE /\ r = ML_STATUS.OK
         /\ m_result' = inference_result(BestGesture(g), inference_sequence)
         /\ ml_stats' = [ml_stats EXCEPT !.inference_count = @ + 1]
         /\ UNCHANGED <<ml_initialized, use_mock_inference, inference_sequence>>

ml_run_inference(input_null, invoke_ok, g, r) ==
    IF ~ml_initialized
    THEN r = ML_STATUS.NOT_INITIALIZED /\ UNCHANGED <<mlVars, m_result>>
    ELSE IF input_null
    THEN r = ML_STATUS.INVALID_INPUT /\ UNCHANGED <<mlVars, m_result>>
    ELSE IF ~InvokeOk(invoke_ok)
    THEN /\ r = ML_STATUS.INVOKE_FAILED
         /\ ml_stats' = [ml_stats EXCEPT !.invoke_failures = @ + 1]
         /\ UNCHANGED <<ml_initialized, use_mock_inference, inference_sequence,
                        m_result>>
    ELSE /\ r = ML_STATUS.OK
         /\ inference_sequence' = inference_sequence + 1
         /\ m_result' = inference_result(BestGesture(g), inference_sequence + 1)
         /\ ml_stats' = [ml_stats EXCEPT !.inference_count = @ + 1]
         /\ UNCHANGED <<ml_initialized, use_mock_inference>>

(***************************************************************************)
(* SpecMl: a caller drives the inference API in any order, from the image  *)
(* as loaded (engine not initialized).                                     *)
(***************************************************************************)
InitMl == InitStatic

CallMlInit ==
    /\ \E outcome \in InitOutcomes, r \in 0 .. 5 :
         /\ ml_inference_init(outcome, r)
         /\ ml_ret' = r
    /\ h_mlCall' = "init"
    /\ UNCHANGED <<m_result, h_okCount>>

CallRunInference ==
    /\ inference_sequence < MaxInfer
    /\ ml_stats.invoke_failures < MaxInfer
    /\ \E input_null \in BOOLEAN, invoke_ok \in BOOLEAN, g \in Gestures, r \in 0 .. 5 :
         /\ ml_run_inference(input_null, invoke_ok, g, r)
         /\ ml_ret' = r
         /\ h_okCount' = IF r = ML_STATUS.OK THEN h_okCount + 1 ELSE h_okCount
    /\ h_mlCall' = "run"

CallMlGetStats ==
    /\ \E stats_null \in BOOLEAN, r \in 0 .. 5 :
         /\ ml_get_stats(stats_null, r)
         /\ ml_ret' = r
    /\ h_mlCall' = "get_stats"
    /\ UNCHANGED <<m_result, h_okCount>>

CallMlResetStats ==
    /\ ml_reset_stats
    /\ h_mlCall' = "reset_stats"
    /\ UNCHANGED <<m_result, ml_ret, h_okCount>>

mlRest == <<apiVars, monVars, regVars, timeVars, mockVars, ml_sem, running, mutex, pc, s_sample, pipeHist>>

NextMl ==
    \/ (CallMlInit /\ UNCHANGED mlRest)
    \/ (CallRunInference /\ UNCHANGED mlRest)
    \/ (CallMlGetStats /\ UNCHANGED mlRest)
    \/ (CallMlResetStats /\ UNCHANGED mlRest)

SpecMl == InitMl /\ [][NextMl]_vars

(***************************************************************************)
(* SpecMon: src/debug/debug_monitor.c with its two callers.  The functions *)
(* take no lock, so each access to a static of the registry is a step of   *)
(* its own and the threads interleave between them.  output_thread_fn      *)
(* (priority 9) calls debug_monitor_get_stats; debug_thread_fn (priority   *)
(* 11) calls debug_monitor_check and then debug_monitor_get_stats, and     *)
(* runs only while the output thread is outside the monitor.  The registry *)
(* holds the one thread main() registers (ml_thread);                      *)
(* CONFIG_THREAD_STACK_INFO is on (docs/ARCHITECTURE.md).                  *)
(***************************************************************************)
\* what k_thread_stack_space_get reports as used for ml_thread
StackUsed == {1, 2}

InitMon == InitStatic

\* the scheduler lets t run
MonRunnable(t) == t = "output" \/ mon_pc["output"] = "idle"

MonGoto(t, l) == mon_pc' = [mon_pc EXCEPT ![t] = l]

\* debug_monitor_get_stats: size - unused_space of the monitored thread
MonGetStatsCall(t) ==
    /\ MonRunnable(t)
    /\ mon_pc[t] = IF t = "debug" THEN "ck_done" ELSE "idle"
    /\ \E used \in StackUsed : mon_used' = [mon_used EXCEPT ![t] = used]
    /\ MonGoto(t, "gs_read_peak")
    /\ UNCHANGED <<peak_usage, total_stack_warnings>>

\* if (used > monitored[i].peak_usage)
MonReadPeak(t) ==
    /\ MonRunnable(t)
    /\ mon_pc[t] = "gs_read_peak"
    /\ MonGoto(t, IF mon_used[t] > peak_usage THEN "gs_write_peak"
                  ELSE "gs_read_warn")
    /\ UNCHANGED <<peak_usage, total_stack_warnings, mon_used>>

\* monitored[i].peak_usage = used
MonWritePeak(t) ==
    /\ MonRunnable(t)
    /\ mon_pc[t] = "gs_write_peak"
    /\ peak_usage' = mon_used[t]
    /\ MonGoto(t, "gs_read_warn")
    /\ UNCHANGED <<total_stack_warnings, mon_used>>

\* stats->stack_warnings = total_stack_warnings; return 0
MonReadWarnings(t) ==
    /\ MonRunnable(t)
    /\ mon_pc[t] = "gs_read_warn"
    /\ MonGoto(t, "idle")
    /\ UNCHANGED <<peak_usage, total_stack_warnings, mon_used>>

\* debug_monitor_check: percent > STACK_WARNING_THRESHOLD, or not
MonCheckCall ==
    /\ MonRunnable("debug")
    /\ mon_pc["debug"] = "idle"
    /\ \E over \in BOOLEAN :
         /\ over => total_stack_warnings < MaxWarnings
         /\ MonGoto("debug", IF over THEN "ck_read_warn" ELSE "ck_done")
    /\ UNCHANGED <<peak_usage, total_stack_warnings, mon_used>>

\* total_stack_warnings++: the load
MonCheckReadWarnings ==
    /\ MonRunnable("debug")
    /\ mon_pc["debug"] = "ck_read_warn"
    /\ mon_used' = [mon_used EXCEPT !["debug"] = total_stack_warnings]
    /\ MonGoto("debug", "ck_write_warn")
    /\ UNCHANGED <<peak_usage, total_stack_warnings>>

\* total_stack_warnings++: the store; return
MonCheckWriteWarnings ==
    /\ MonRunnable("debug")
    /\ mon_pc["debug"] = "ck_write_warn"
    /\ total_stack_warnings' = mon_used["debug"] + 1
    /\ MonGoto("debug", "ck_done")
    /\ UNCHANGED <<peak_usage, mon_used>>

monRest == <<apiVars, mlVars, mlCaller, regVars, timeVars, mockVars, pipeVars, pipeHist>>

NextMon ==
    \/ \E t \in MonThreads : MonGetStatsCall(t) /\ UNCHANGED monRest
    \/ \E t \in MonThreads : MonReadPeak(t) /\ UNCHANGED monRest
    \/ \E t \in MonThreads : MonWritePeak(t) /\ UNCHANGED monRest
    \/ \E t \in MonThreads : MonReadWarnings(t) /\ UNCHANGED monRest
    \/ (MonCheckCall /\ UNCHANGED monRest)
    \/ (MonCheckReadWarnings /\ UNCHANGED monRest)
    \/ (MonCheckWriteWarnings /\ UNCHANGED monRest)

SpecMon == InitMon /\ [][NextMon]_vars

\* the access to the registry thread t is about to make: <<field, kind>>
MonAccess(t) ==
    CASE mon_pc[t] = "gs_read_peak"  -> <<"peak_usage", "read">>
      [] mon_pc[t] = "gs_write_peak" -> <<"peak_usage", "write">>
      [] mon_pc[t] = "gs_read_warn"  -> <<"total_stack_warnings", "read">>
      [] mon_pc[t] = "ck_read_warn"  -> <<"total_stack_warnings", "read">>
      [] mon_pc[t] = "ck_write_warn" -> <<"total_stack_warnings", "write">>
      [] OTHER -> <<"none", "none">>

(***************************************************************************)
(* SpecReg: a caller drives the debug_monitor API in any order, from the   *)
(* image as loaded (monitor not initialized, nothing registered).          *)
(***************************************************************************)
InitReg == InitStatic

CallMonInit ==
    /\ \E r \in RetCodes :
         /\ debug_monitor_init(r)
         /\ mon_ret' = r
    /\ h_monCall' = "init"
    /\ mon_stats' = NoStats
    /\ h_monArg' = NoArg
    /\ h_read' = NoReads

CallRegisterThread ==
    /\ \E thread \in MonitorableThreads \cup {NullPtr}, name_null \in BOOLEAN,
          r \in RetCodes :
         LET name == IF name_null THEN NullPtr
                     ELSE IF thread = NullPtr THEN "ml_thread" ELSE thread
         IN  /\ debug_monitor_register_thread(thread, name, r)
             /\ mon_ret' = r
             /\ h_monArg' = [thread |-> thread, name |-> name]
    /\ h_monCall' = "register"
    /\ mon_stats' = NoStats
    /\ h_read' = NoReads

CallMonGetStats ==
    /\ \E stats_null \in BOOLEAN, rd \in PassReads, r \in RetCodes :
         /\ debug_monitor_get_stats(stats_null, rd, r)
         /\ mon_ret' = r
         /\ mon_stats' = IF stats_null THEN NoStats ELSE StatsWritten(rd)
         /\ h_read' = IF stats_null THEN NoReads ELSE rd
    /\ h_monCall' = "get_stats"
    /\ h_monArg' = NoArg

CallMonCheck ==
    /\ \E rd \in PassReads, r \in RetCodes :
         /\ total_stack_warnings + Cardinality(OverThreshold(rd)) <= MaxWarnings
         /\ debug_monitor_check(rd, r)
         /\ mon_ret' = r
         /\ h_read' = IF monitor_initialized THEN rd ELSE NoReads
    /\ h_monCall' = "check"
    /\ mon_stats' = NoStats
    /\ h_monArg' = NoArg

CallMonHealthy ==
    /\ \E rd \in PassReads, healthy \in BOOLEAN :
         /\ total_stack_warnings + Cardinality(OverThreshold(rd)) <= MaxWarnings
         /\ debug_monitor_healthy(rd, healthy)
         /\ mon_ret' = IF healthy THEN 1 ELSE 0
         /\ h_read' = IF monitor_initialized THEN rd ELSE NoReads
    /\ h_monCall' = "healthy"
    /\ mon_stats' = NoStats
    /\ h_monArg' = NoArg

regRest == <<apiVars, mlVars, mlCaller, peak_usage, mon_pc, mon_used, timeVars, mockVars,
            pipeVars, pipeHist>>

NextReg ==
    \/ (CallMonInit /\ UNCHANGED regRest)
    \/ (CallRegisterThread /\ UNCHANGED regRest)
    \/ (CallMonGetStats /\ UNCHANGED regRest)
    \/ (CallMonCheck /\ UNCHANGED regRest)
    \/ (CallMonHealthy /\ UNCHANGED regRest)

SpecReg == InitReg /\ [][NextReg]_vars

(***************************************************************************)
(* SpecTime: a caller drives the timing API in any order, from the image   *)
(* as loaded.                                                              *)
(***************************************************************************)
InitTime == InitStatic

CallTimingInit ==
    /\ \E freq \in ClockRates : profile_timing_init(freq)
    /\ h_timeCall' = "init"
    /\ t_end' = Zero32
    /\ t_elapsed' = Zero32
    /\ t_ret' = Zero32
    /\ UNCHANGED <<t_start, timing_stats, h_durations>>

CallTimingStart ==
    /\ \E r \in CycleValues :
         /\ profile_timing_start(r)
         /\ t_start' = r
    /\ h_timeCall' = "start"
    /\ t_end' = Zero32
    /\ t_elapsed' = Zero32
    /\ t_ret' = Zero32
    /\ UNCHANGED <<timing_stats, h_durations>>

CallTimingEnd ==
    /\ \E end_cycles \in CycleValues :
         /\ t_ret' = profile_timing_end(t_start, end_cycles)
         /\ t_end' = end_cycles
         /\ t_elapsed' = ElapsedCycles(t_start, end_cycles)
    /\ h_timeCall' = "end"
    /\ UNCHANGED <<cycles_per_us, timing_initialized, t_start, timing_stats, h_durations>>

CallTimingRecord ==
    /\ Len(h_durations) < MaxRecord
    /\ \E stats_null \in BOOLEAN, duration_us \in Durations :
         /\ profile_timing_record(stats_null, duration_us)
         /\ h_durations' = IF stats_null THEN h_durations
                           ELSE Append(h_durations, duration_us)
    /\ h_timeCall' = "record"
    /\ t_end' = Zero32
    /\ t_elapsed' = Zero32
    /\ t_ret' = Zero32
    /\ UNCHANGED <<cycles_per_us, timing_initialized, t_start>>

CallTimingStatsReset ==
    /\ \E stats_null \in BOOLEAN :
         /\ profile_timing_stats_reset(stats_null)
         /\ h_durations' = IF stats_null THEN h_durations ELSE << >>
    /\ h_timeCall' = "reset"
    /\ t_end' = Zero32
    /\ t_elapsed' = Zero32
    /\ t_ret' = Zero32
    /\ UNCHANGED <<cycles_per_us, timing_initialized, t_start>>

timeRest == <<apiVars, mlVars, mlCaller, monVars, regVars, mockVars, pipeVars, pipeHist>>

NextTime ==
    \/ (CallTimingInit /\ UNCHANGED timeRest)
    \/ (CallTimingStart /\ UNCHANGED timeRest)
    \/ (CallTimingEnd /\ UNCHANGED timeRest)
    \/ (CallTimingRecord /\ UNCHANGED timeRest)
    \/ (CallTimingStatsReset /\ UNCHANGED timeRest)

SpecTime == InitTime /\ [][NextTime]_vars

(***************************************************************************)
(* SpecMock: a caller drives the mock sensor while the uptime advances.    *)
(***************************************************************************)
InitMock == InitStatic

CallMockInit ==
    /\ \E r \in {0} : mock_accel_init(r) /\ mock_ret' = r
    /\ h_started' = << >>
    /\ h_mockCall' = "init"
    /\ UNCHANGED <<uptime, mock_pattern>>

CallMockRead ==
    /\ \E sample_null \in BOOLEAN, r \in {0, -ERR.ENODEV, -ERR.EINVAL} :
         mock_accel_read(sample_null, r) /\ mock_ret' = r
    /\ h_mockCall' = "read"
    /\ UNCHANGED <<mock_initialized, uptime>>

\* time passes between two calls
MockTick ==
    /\ \E d \in TickSteps :
         /\ uptime + d <= MaxUptime
         /\ uptime' = uptime + d
    /\ UNCHANGED <<mock_initialized, current_gesture, gesture_start_time,
                   next_gesture_time, gesture_sequence_index, mock_ret,
                   mock_pattern, h_started, h_mockCall>>

mockRest == <<apiVars, mlVars, mlCaller, monVars, regVars, timeVars, pipeVars, pipeHist>>

NextMock ==
    \/ (CallMockInit /\ UNCHANGED mockRest)
    \/ (CallMockRead /\ UNCHANGED mockRest)
    \/ (MockTick /\ UNCHANGED mockRest)

SpecMock == InitMock /\ [][NextMock]_vars

(***************************************************************************)
(* The gate: K_SEM_DEFINE(ml_sem, 0, 1).  A give raises the count up to    *)
(* the limit; a take with a timeout lowers a positive count and returns 0, *)
(* or finds it 0 until the timeout expires and returns -EAGAIN.  (A give   *)
(* that wakes a blocked taker is the give followed by the take.)           *)
(***************************************************************************)
\* a counting gate: K_SEM_DEFINE(ml_sem, 0, 2)
k_sem_give_counting ==
    ml_sem' = IF ml_sem < ML_SEM_LIMIT + 1 THEN ml_sem + 1 ELSE ml_sem

k_sem_give ==
    ml_sem' = IF ml_sem < ML_SEM_LIMIT THEN ml_sem + 1 ELSE ml_sem

\* k_sem_take(&ml_sem, K_FOREVER): no timeout, the taker stays blocked
k_sem_take_forever(r) ==
    /\ ml_sem > 0
    /\ r = 0
    /\ ml_sem' = ml_sem - 1

k_sem_take(r) ==
    IF ml_sem > 0
    THEN r = 0 /\ ml_sem' = ml_sem - 1
    ELSE r = -ERR.EAGAIN /\ UNCHANGED ml_sem

(***************************************************************************)
(* Mutexes (k_mutex_lock with K_FOREVER, k_mutex_unlock) and control.      *)
(***************************************************************************)
\* a lock that does not wait for the holder
Lock_no_wait(m, t) ==
    mutex' = [mutex EXCEPT ![m] = t]

Lock(m, t) ==
    /\ mutex[m] = "none"
    /\ mutex' = [mutex EXCEPT ![m] = t]

Unlock(m, t) ==
    /\ mutex[m] = t
    /\ mutex' = [mutex EXCEPT ![m] = "none"]

Goto(t, l) == pc' = [pc EXCEPT ![t] = l]

\* while (running): the thread enters its loop body at label body, or leaves
LoopCheck(t, body) ==
    /\ pc[t] = "loop"
    /\ Goto(t, IF running THEN body ELSE "done")
    /\ h_checksAfterStop' =
         IF running THEN h_checksAfterStop
         ELSE [h_checksAfterStop EXCEPT ![t] = @ + 1]

pipeCounters == <<h_gives, h_wakes, h_coalesced, h_lastWait, h_iterCompleted,
                 h_iterGave, h_midWait, h_pushedAfterStop, outHist>>

(***************************************************************************)
(* sensor_thread_fn                                                        *)
(***************************************************************************)
SensorLoop ==
    /\ LoopCheck("sensor", "read_lock")
    /\ UNCHANGED <<apiVars, mlVars, mlCaller, monVars, regVars, timeVars, mockVars, ml_sem, running, mutex, s_sample, m_result,
                   pipeCounters>>

\* sensor_hal_read: k_mutex_lock(&sensor_mutex, K_FOREVER)
SensorReadLock ==
    /\ pc["sensor"] = "read_lock"
    /\ Lock("sensor_mutex", "sensor")
    /\ Goto("sensor", "read")
    /\ UNCHANGED <<apiVars, mlVars, mlCaller, monVars, regVars, timeVars, mockVars, ml_sem, running, s_sample, m_result, pipeHist>>

\* sensor_hal_read, under sensor_mutex: the source delivers a sample stamped
\* with the time, or fails; the mutex is released on both paths; on failure
\* the thread sleeps and loops
SensorRead ==
    /\ pc["sensor"] = "read"
    /\ Unlock("sensor_mutex", "sensor")
    /\ \/ /\ clock < MaxSamples
          /\ \E v \in SensorReadings : s_sample' = accel_sample(v, clock + 1)
          /\ clock' = clock + 1
          /\ Goto("sensor", "add_lock")
          /\ UNCHANGED <<h_iterCompleted, h_iterGave>>
       \/ /\ Goto("sensor", "loop")
          /\ h_iterCompleted' = FALSE
          /\ h_iterGave' = FALSE
          /\ UNCHANGED <<clock, s_sample>>
    /\ UNCHANGED <<preVars, input_buffer, pre_ret, preHist, queueVars, queueCaller,
                   queueHist, mlVars, mlCaller, monVars, regVars, timeVars, mockVars, outHist, ml_sem, running, m_result, h_gives,
                   h_wakes, h_coalesced, h_lastWait, h_midWait, h_pushedAfterStop,
                   h_checksAfterStop>>

SensorAddLock ==
    /\ pc["sensor"] = "add_lock"
    /\ Lock("preprocess_mutex", "sensor")
    /\ Goto("sensor", "add")
    /\ UNCHANGED <<apiVars, mlVars, mlCaller, monVars, regVars, timeVars, mockVars, ml_sem, running, s_sample, m_result, pipeHist>>

\* preprocessing_add_sample(&sample); its return value is not looked at
SensorAdd ==
    /\ pc["sensor"] = "add"
    /\ \E r \in RetCodes : preprocessing_add_sample(s_sample, r)
    /\ Unlock("preprocess_mutex", "sensor")
    /\ Goto("sensor", "ready_lock")
    /\ h_added' = h_added + 1
    /\ h_completed' = IF (h_added + 1) % CONFIG_ML_INFERENCE_WINDOW_SIZE = 0
                      THEN h_completed + 1 ELSE h_completed
    /\ h_readyAt' = IF ~window_ready /\ window_ready'
                    THEN s_sample.timestamp_us ELSE h_readyAt
    /\ h_iterCompleted' = ((h_added + 1) % CONFIG_ML_INFERENCE_WINDOW_SIZE = 0)
    /\ h_iterGave' = FALSE
    /\ UNCHANGED <<preCaller, fed, h_consumedAt, h_produced, h_lastCall, h_outArg, outputs,
                   queueVars, queueCaller, queueHist, mlVars, mlCaller, monVars, regVars, timeVars, mockVars, outHist, ml_sem, running,
                   s_sample, m_result, h_gives, h_wakes, h_coalesced, h_lastWait,
                   h_midWait, h_pushedAfterStop, h_checksAfterStop>>

SensorReadyLock ==
    /\ pc["sensor"] = "ready_lock"
    /\ Lock("preprocess_mutex", "sensor")
    /\ Goto("sensor", "ready")
    /\ UNCHANGED <<apiVars, mlVars, mlCaller, monVars, regVars, timeVars, mockVars, ml_sem, running, s_sample, m_result, pipeHist>>

\* sensor_thread_fn leaving out the k_sem_give
SensorReady_no_give ==
    /\ pc["sensor"] = "ready"
    /\ \E ready \in BOOLEAN :
         /\ preprocessing_window_ready(ready)
         /\ Goto("sensor", "loop")
    /\ Unlock("preprocess_mutex", "sensor")
    /\ UNCHANGED <<preCaller, preHist, queueVars, queueCaller, queueHist, mlVars, mlCaller, monVars, regVars, timeVars, mockVars,
                   ml_sem, running, s_sample, m_result, pipeHist>>

\* if (preprocessing_window_ready()) k_sem_give(&ml_sem); else sleep and loop
SensorReady ==
    /\ pc["sensor"] = "ready"
    /\ \E ready \in BOOLEAN :
         /\ preprocessing_window_ready(ready)
         /\ Goto("sensor", IF ready THEN "give" ELSE "loop")
    /\ Unlock("preprocess_mutex", "sensor")
    /\ UNCHANGED <<preCaller, preHist, queueVars, queueCaller, queueHist, mlVars, mlCaller, monVars, regVars, timeVars, mockVars,
                   ml_sem, running, s_sample, m_result, pipeHist>>

SensorGive ==
    /\ pc["sensor"] = "give"
    /\ k_sem_give
    /\ Goto("sensor", "loop")
    /\ h_gives' = IF h_gives < 2 THEN h_gives + 1 ELSE h_gives
    /\ h_wakes' = 0
    /\ h_iterGave' = TRUE
    /\ UNCHANGED <<apiVars, mlVars, mlCaller, monVars, regVars, timeVars, mockVars, outHist, running, mutex, s_sample, m_result,
                   h_coalesced, h_lastWait, h_iterCompleted, h_midWait,
                   h_pushedAfterStop, h_checksAfterStop>>

SensorStep ==
    \/ SensorLoop
    \/ SensorReadLock
    \/ SensorRead
    \/ SensorAddLock
    \/ SensorAdd
    \/ SensorReadyLock
    \/ SensorReady
    \/ SensorGive

(***************************************************************************)
(* ml_thread_fn                                                            *)
(***************************************************************************)
MlLoop ==
    /\ LoopCheck("ml", "take")
    /\ UNCHANGED <<apiVars, mlVars, mlCaller, monVars, regVars, timeVars, mockVars, ml_sem, running, mutex, s_sample, m_result,
                   pipeCounters>>

\* ret = k_sem_take(&ml_sem, K_MSEC(1000)); on a timeout the thread loops
MlTake ==
    /\ pc["ml"] = "take"
    /\ \E r \in RetCodes :
         /\ k_sem_take(r)
         /\ Goto("ml", IF r = 0 THEN "get_lock" ELSE "loop")
         /\ h_lastWait' = IF r = 0 THEN "Signaled" ELSE "TimedOut"
         /\ h_wakes' = IF r = 0 THEN h_wakes + 1 ELSE h_wakes
         /\ h_coalesced' = IF r = 0 THEN h_gives ELSE h_coalesced
         /\ h_gives' = IF r = 0 THEN 0 ELSE h_gives
    /\ UNCHANGED <<apiVars, mlVars, mlCaller, monVars, regVars, timeVars, mockVars, outHist, running, mutex, s_sample, m_result,
                   h_iterCompleted, h_iterGave, h_midWait, h_pushedAfterStop,
                   h_checksAfterStop>>

MlGetLock ==
    /\ pc["ml"] = "get_lock"
    /\ Lock("preprocess_mutex", "ml")
    /\ Goto("ml", "get")
    /\ UNCHANGED <<apiVars, mlVars, mlCaller, monVars, regVars, timeVars, mockVars, ml_sem, running, s_sample, m_result, pipeHist>>

\* ml_thread_fn running the engine whatever preprocessing_get_input returned
MlGet_no_check ==
    /\ pc["ml"] = "get"
    /\ \E r \in RetCodes :
         /\ preprocessing_get_input(FALSE, ML_INPUT_SIZE, r)
         /\ Goto("ml", "infer_lock")
         /\ h_consumedAt' = IF r = 0 THEN h_added ELSE h_consumedAt
         /\ h_produced' = IF r = 0 THEN h_produced + 1 ELSE h_produced
    /\ Unlock("preprocess_mutex", "ml")
    /\ UNCHANGED <<clock, pre_ret, fed, h_added, h_completed, h_readyAt,
                   h_lastCall, h_outArg, outputs, queueVars, queueCaller, queueHist, mlVars, mlCaller, monVars, regVars, timeVars, mockVars,
                   ml_sem, running, s_sample, m_result, pipeHist>>

\* ret = preprocessing_get_input(input_buffer, sizeof(input_buffer))
MlGet ==
    /\ pc["ml"] = "get"
    /\ \E r \in RetCodes :
         /\ preprocessing_get_input(FALSE, ML_INPUT_SIZE, r)
         /\ Goto("ml", IF r = 0 THEN "infer_lock" ELSE "loop")
         /\ h_consumedAt' = IF r = 0 THEN h_added ELSE h_consumedAt
         /\ h_produced' = IF r = 0 THEN h_produced + 1 ELSE h_produced
    /\ Unlock("preprocess_mutex", "ml")
    /\ UNCHANGED <<clock, pre_ret, fed, h_added, h_completed, h_readyAt,
                   h_lastCall, h_outArg, outputs, queueVars, queueCaller, queueHist, mlVars, mlCaller, monVars, regVars, timeVars, mockVars,
                   ml_sem, running, s_sample, m_result, pipeHist>>

MlInferLock ==
    /\ pc["ml"] = "infer_lock"
    /\ Lock("ml_mutex", "ml")
    /\ Goto("ml", "infer")
    /\ UNCHANGED <<apiVars, mlVars, mlCaller, monVars, regVars, timeVars, mockVars, ml_sem, running, s_sample, m_result, pipeHist>>

\* ml_thread_fn pushing result whatever ml_run_inference returned
MlInfer_push_always ==
    /\ pc["ml"] = "infer"
    /\ \E invoke_ok \in BOOLEAN, g \in EngineGestures, r \in 0 .. 5 :
         /\ ml_run_inference(FALSE, invoke_ok, g, r)
         /\ Goto("ml", "push_lock")
         /\ h_okCount' = IF r = ML_STATUS.OK THEN h_okCount + 1 ELSE h_okCount
    /\ Unlock("ml_mutex", "ml")
    /\ UNCHANGED <<apiVars, ml_ret, h_mlCall, monVars, regVars, timeVars, mockVars, ml_sem, running, s_sample,
                   pipeHist>>

\* ret = ml_run_inference(input_buffer, &result)
MlInfer ==
    /\ pc["ml"] = "infer"
    /\ \E invoke_ok \in BOOLEAN, g \in EngineGestures, r \in 0 .. 5 :
         /\ ml_run_inference(FALSE, invoke_ok, g, r)
         /\ Goto("ml", IF r = ML_STATUS.OK THEN "push_lock" ELSE "loop")
         /\ h_okCount' = IF r = ML_STATUS.OK THEN h_okCount + 1 ELSE h_okCount
    /\ Unlock("ml_mutex", "ml")
    /\ UNCHANGED <<apiVars, ml_ret, h_mlCall, monVars, regVars, timeVars, mockVars, ml_sem, running, s_sample,
                   pipeHist>>

MlPushLock ==
    /\ pc["ml"] = "push_lock"
    /\ Lock("buffer_mutex", "ml")
    /\ Goto("ml", "push")
    /\ UNCHANGED <<apiVars, mlVars, mlCaller, monVars, regVars, timeVars, mockVars, ml_sem, running, s_sample, m_result, pipeHist>>

\* result_buffer_push(&result)
MlPush ==
    /\ pc["ml"] = "push"
    /\ \E r \in RetCodes :
         /\ result_buffer_push(m_result, r)
         /\ q_pushed' = IF r = 0 THEN Append(q_pushed, m_result) ELSE q_pushed
    /\ Unlock("buffer_mutex", "ml")
    /\ Goto("ml", "loop")
    /\ h_pushedAfterStop' = IF running THEN h_pushedAfterStop
                            ELSE h_pushedAfterStop + 1
    /\ UNCHANGED <<preVars, preCaller, preHist, queueCaller, q_popped, h_qCall,
                   h_qArg, h_dropCand, mlVars, mlCaller, monVars, regVars, timeVars, mockVars, outHist, ml_sem, running,
                   s_sample, m_result, h_gives,
                   h_wakes, h_coalesced, h_lastWait, h_iterCompleted, h_iterGave,
                   h_midWait, h_checksAfterStop>>

MlStep ==
    \/ MlLoop
    \/ MlTake
    \/ MlGetLock
    \/ MlGet
    \/ MlInferLock
    \/ MlInfer
    \/ MlPushLock
    \/ MlPush

(***************************************************************************)
(* output_thread_fn                                                        *)
(***************************************************************************)
OutLoop ==
    /\ LoopCheck("output", "pop_lock")
    /\ h_outIter' = << >>
    /\ UNCHANGED <<apiVars, mlVars, mlCaller, monVars, regVars, timeVars, mockVars, ml_sem, running, mutex, s_sample, m_result,
                   h_gives, h_wakes, h_coalesced, h_lastWait, h_iterCompleted,
                   h_iterGave, h_midWait, h_pushedAfterStop, h_sink>>

OutPopLock ==
    /\ pc["output"] = "pop_lock"
    /\ Lock("buffer_mutex", "output")
    /\ Goto("output", "pop")
    /\ UNCHANGED <<apiVars, mlVars, mlCaller, monVars, regVars, timeVars, mockVars, ml_sem, running, s_sample, m_result, pipeHist>>

\* output_thread_fn going on to the snapshot and the sink whatever pop returned
OutPop_no_check ==
    /\ pc["output"] = "pop"
    /\ \E r \in RetCodes :
         /\ result_buffer_pop(FALSE, r)
         /\ Goto("output", "stats")
         /\ q_popped' = IF r = 0 THEN Append(q_popped, out_result') ELSE q_popped
         /\ h_outIter' = IF r = 0 THEN <<"pop">> ELSE <<"empty">>
    /\ Unlock("buffer_mutex", "output")
    /\ UNCHANGED <<preVars, preCaller, preHist, q_ret, q_pushed, h_qCall, h_qArg,
                   h_dropCand,
                   mlVars, mlCaller, monVars, regVars, timeVars, mockVars, ml_sem, running, s_sample, m_result,
                   h_gives, h_wakes, h_coalesced, h_lastWait, h_iterCompleted,
                   h_iterGave, h_midWait, h_pushedAfterStop, h_checksAfterStop, h_sink>>

\* result_buffer_pop returning -EAGAIN without releasing buffer_mutex
OutPop_keep_lock ==
    /\ pc["output"] = "pop"
    /\ \E r \in RetCodes :
         /\ result_buffer_pop(FALSE, r)
         /\ Goto("output", IF r = 0 THEN "stats" ELSE "loop")
         /\ q_popped' = IF r = 0 THEN Append(q_popped, out_result') ELSE q_popped
         /\ h_outIter' = IF r = 0 THEN <<"pop">> ELSE <<"empty", "sleep">>
         /\ IF r = 0 THEN Unlock("buffer_mutex", "output") ELSE UNCHANGED mutex
    /\ UNCHANGED <<preVars, preCaller, preHist, q_ret, q_pushed, h_qCall, h_qArg,
                   h_dropCand,
                   mlVars, mlCaller, monVars, regVars, timeVars, mockVars, ml_sem, running, s_sample, m_result,
                   h_gives, h_wakes, h_coalesced, h_lastWait, h_iterCompleted,
                   h_iterGave, h_midWait, h_pushedAfterStop, h_checksAfterStop, h_sink>>

\* ret = result_buffer_pop(&result); on -EAGAIN the thread skips to the
\* k_msleep(10) that ends the iteration
OutPop ==
    /\ pc["output"] = "pop"
    /\ \E r \in RetCodes :
         /\ result_buffer_pop(FALSE, r)
         /\ Goto("output", IF r = 0 THEN "stats" ELSE "loop")
         /\ q_popped' = IF r = 0 THEN Append(q_popped, out_result') ELSE q_popped
         /\ h_outIter' = IF r = 0 THEN <<"pop">> ELSE <<"empty", "sleep">>
    /\ Unlock("buffer_mutex", "output")
    /\ UNCHANGED <<preVars, preCaller, preHist, q_ret, q_pushed, h_qCall, h_qArg,
                   h_dropCand,
                   mlVars, mlCaller, monVars, regVars, timeVars, mockVars, ml_sem, running, s_sample, m_result,
                   h_gives, h_wakes, h_coalesced, h_lastWait, h_iterCompleted,
                   h_iterGave, h_midWait, h_pushedAfterStop, h_checksAfterStop, h_sink>>

\* debug_monitor_get_stats(&debug_stats)
OutStats ==
    /\ pc["output"] = "stats"
    /\ Goto("output", "uart")
    /\ h_outIter' = Append(h_outIter, "get_stats")
    /\ UNCHANGED <<apiVars, mlVars, mlCaller, monVars, regVars, timeVars, mockVars, ml_sem, running, mutex, s_sample, m_result,
                   h_gives, h_wakes, h_coalesced, h_lastWait, h_iterCompleted,
                   h_iterGave, h_midWait, h_pushedAfterStop, h_checksAfterStop, h_sink>>

\* uart_output_inference(&result, &debug_stats), then k_msleep(10) and loop
OutUart ==
    /\ pc["output"] = "uart"
    /\ Goto("output", "loop")
    /\ h_outIter' = h_outIter \o <<"sink", "sleep">>
    /\ h_sink' = Append(h_sink, out_result)
    /\ UNCHANGED <<apiVars, mlVars, mlCaller, monVars, regVars, timeVars, mockVars, ml_sem, running, mutex, s_sample, m_result,
                   h_gives, h_wakes, h_coalesced, h_lastWait, h_iterCompleted,
                   h_iterGave, h_midWait, h_pushedAfterStop, h_checksAfterStop>>

OutputStep ==
    \/ OutLoop
    \/ OutPopLock
    \/ OutPop
    \/ OutStats
    \/ OutUart

(***************************************************************************)
(* debug_thread_fn                                                         *)
(***************************************************************************)
DbgLoop ==
    /\ LoopCheck("debug", "check")
    /\ UNCHANGED <<apiVars, mlVars, mlCaller, monVars, regVars, timeVars, mockVars, ml_sem, running, mutex, s_sample, m_result,
                   pipeCounters>>

\* debug_monitor_check(), debug_monitor_get_stats(&stats)
DbgCheck ==
    /\ pc["debug"] = "check"
    /\ Goto("debug", "mlstats_lock")
    /\ UNCHANGED <<apiVars, mlVars, mlCaller, monVars, regVars, timeVars, mockVars, ml_sem, running, mutex, s_sample, m_result,
                   pipeHist>>

\* ml_get_stats(&ml_stats): k_mutex_lock(&ml_mutex)
DbgMlStatsLock ==
    /\ pc["debug"] = "mlstats_lock"
    /\ Lock("ml_mutex", "debug")
    /\ Goto("debug", "mlstats")
    /\ UNCHANGED <<apiVars, mlVars, mlCaller, monVars, regVars, timeVars, mockVars, ml_sem, running, s_sample, m_result, pipeHist>>

\* ml_get_stats copies the statistics out; then the log line, the debug output,
\* the sleep and the loop
DbgMlStats ==
    /\ pc["debug"] = "mlstats"
    /\ Unlock("ml_mutex", "debug")
    /\ Goto("debug", "loop")
    /\ UNCHANGED <<apiVars, mlVars, mlCaller, monVars, regVars, timeVars, mockVars, ml_sem, running, s_sample, m_result, pipeHist>>

DebugStep ==
    \/ DbgLoop
    \/ DbgCheck
    \/ DbgMlStatsLock
    \/ DbgMlStats

(***************************************************************************)
(* The shutdown flag.  Nothing in the application writes running; the      *)
(* design's shutdown (a shared flag set once, observed by every loop) is   *)
(* the event that clears it.                                               *)
(***************************************************************************)
Shutdown ==
    /\ running
    /\ running' = FALSE
    /\ h_midWait' = (pc["ml"] = "take" /\ ml_sem = 0)
    /\ UNCHANGED <<apiVars, mlVars, mlCaller, monVars, regVars, timeVars, mockVars, outHist, ml_sem, mutex, pc, s_sample, m_result,
                   h_gives, h_wakes, h_coalesced, h_lastWait, h_iterCompleted,
                   h_iterGave, h_pushedAfterStop, h_checksAfterStop>>

(***************************************************************************)
(* Spec: the pipeline after main() has initialised every module and        *)
(* created the four threads.                                               *)
(***************************************************************************)
Init ==
    /\ sample_window = [i \in WindowIdx |-> ZeroSample]
    /\ window_pos = 0
    /\ window_ready = FALSE
    /\ dc_offset = DcInitial
    /\ initialized = TRUE
    /\ clock = 0
    /\ input_buffer = EmptyOut
    /\ pre_ret = 0
    /\ fed = << >>
    /\ h_added = 0
    /\ h_consumedAt = 0
    /\ h_completed = 0
    /\ h_readyAt = 0
    /\ h_produced = 0
    /\ h_lastCall = "init"
    /\ h_outArg = [null |-> TRUE, size |-> 0]
    /\ outputs = << >>
    /\ InitQueueVars
    /\ ml_initialized = TRUE
    /\ use_mock_inference = FALSE
    /\ inference_sequence = 0
    /\ ml_stats = [inference_count |-> 0, invoke_failures |-> 0]
    /\ ml_ret = ML_STATUS.OK
    /\ h_mlCall = "init"
    /\ h_okCount = 0
    /\ peak_usage = 0
    /\ total_stack_warnings = 0
    /\ mon_pc = [t \in MonThreads |-> "idle"]
    /\ mon_used = [t \in MonThreads |-> 0]
    /\ monitored = [i \in MonIdx |->
                      IF i = 0 THEN [thread |-> "ml_thread", name |-> "ml_thread",
                                     stack_size |-> 0, peak_usage |-> 0]
                      ELSE NoEntry]
    /\ monitored_count = 1
    /\ monitor_initialized = TRUE
    /\ mon_ret = 0
    /\ mon_stats = NoStats
    /\ h_monCall = "register"
    /\ h_monArg = [thread |-> "ml_thread", name |-> "ml_thread"]
    /\ h_read = NoReads
    /\ cycles_per_us = 25
    /\ timing_initialized = TRUE
    /\ t_start = Zero32
    /\ t_end = Zero32
    /\ t_elapsed = Zero32
    /\ t_ret = Zero32
    /\ timing_stats = ZeroStats
    /\ h_durations = << >>
    /\ h_timeCall = "init"
    /\ mock_initialized = TRUE
    /\ current_gesture = MOCK_GESTURE_IDLE
    /\ gesture_start_time = 0
    /\ next_gesture_time = CONFIG_SENSOR_MOCK_GESTURE_INTERVAL_MS
    /\ gesture_sequence_index = 0
    /\ uptime = 0
    /\ mock_ret = 0
    /\ mock_pattern = "none"
    /\ h_started = << >>
    /\ h_mockCall = "init"
    /\ ml_sem = 0
    /\ running = TRUE
    /\ mutex = [m \in Mutexes |-> "none"]
    /\ pc = [t \in Threads |-> "loop"]
    /\ s_sample = ZeroSample
    /\ m_result = ZeroResult
    /\ h_gives = 0
    /\ h_wakes = 0
    /\ h_coalesced = 0
    /\ h_lastWait = "none"
    /\ h_iterCompleted = FALSE
    /\ h_iterGave = FALSE
    /\ h_midWait = FALSE
    /\ h_pushedAfterStop = 0
    /\ h_checksAfterStop = [t \in Threads |-> 0]
    /\ h_outIter = << >>
    /\ h_sink = << >>

Next ==
    \/ SensorStep
    \/ MlStep
    \/ OutputStep
    \/ DebugStep
    \/ Shutdown

Spec == Init /\ [][Next]_vars

\* The scheduler: every thread that can run eventually does (each sleep and
\* each timed wait ends, each mutex holder runs on to its unlock).
Fairness ==
    /\ WF_vars(SensorStep)
    /\ WF_vars(MlStep)
    /\ WF_vars(OutputStep)
    /\ WF_vars(DebugStep)

SpecLive == Init /\ [][Next]_vars /\ Fairness

\* k_mutex_lock(K_FOREVER): a thread waiting for a mutex that is unlocked again
\* and again gets it (the unlock hands the mutex to the waiter).
Handoff ==
    /\ SF_vars(MlInferLock)
    /\ SF_vars(MlPushLock)

SpecHandoff == Init /\ [][Next]_vars /\ Fairness /\ Handoff

(***************************************************************************)
(* Properties of the preprocessing API (SpecPre).                          *)
(***************************************************************************)
\* the samples with timestamps t-WINDOW_SIZE+1 .. t, in feeding order
FedWindow(t) ==
    [i \in WindowIdx |-> fed[t - CONFIG_ML_INFERENCE_WINDOW_SIZE + 1 + i]]

\* C1 (no silent overwrite): every buffer get_input has returned was computed
\* from exactly the window_size samples whose last append turned the window
\* ready, however many samples were appended before the call: its slots were
\* read from those samples, in order, and its values are their quantization
\* with the DC estimate as of that append.
C1_NoSilentOverwrite ==
    \A k \in 1 .. Len(outputs) :
        LET o == outputs[k]
        IN  /\ o.from = [i \in WindowIdx |-> FedWindow(o.readyAt)[i].timestamp_us]
            /\ o.buf = QuantizeWindow(FedWindow(o.readyAt), DcAfter(o.readyAt))

\* C2 (window integrity): every produced buffer lists its samples in the order
\* they were fed, and no fed sample contributes to two produced buffers.
C2_WindowIntegrity ==
    /\ \A k \in 1 .. Len(outputs) : \A i, j \in WindowIdx :
            i < j => outputs[k].from[i] < outputs[k].from[j]
    /\ \A k1, k2 \in 1 .. Len(outputs) : \A i, j \in WindowIdx :
            k1 < k2 => outputs[k1].from[i] # outputs[k2].from[j]

\* C7 (window state invariant): the write position stays within
\* [0, window_size], and window_ready is true exactly when a window was
\* completed after the last successful get_input (or clear / init): never
\* before the first completion, never right after a successful take.
C7_WindowState ==
    /\ window_pos \in 0 .. CONFIG_ML_INFERENCE_WINDOW_SIZE
    /\ window_ready <=>
         (h_added \div CONFIG_ML_INFERENCE_WINDOW_SIZE)
            > (h_consumedAt \div CONFIG_ML_INFERENCE_WINDOW_SIZE)
    /\ (h_lastCall = "get_input" /\ pre_ret = 0) => ~window_ready

\* C7 witness: after a successful take a second window has been completed and
\* is ready while the first buffer is already out.
C7_Witness ==
    /\ window_ready
    /\ h_produced = 1
    /\ h_consumedAt > 0
    /\ h_completed = 2

\* C8 (each completed window is consumed exactly once): a successful take
\* leaves the window not ready, and once the consumer has caught up (no window
\* is pending) as many buffers have been produced as windows were completed.
C8_ConsumedExactlyOnce ==
    /\ (h_lastCall = "get_input" /\ pre_ret = 0) => ~window_ready
    /\ ~window_ready => h_produced = h_completed

\* C19 (window completion): counting the samples appended since init or the
\* last clear, the window is not ready and the write position equals that
\* count while fewer than window_size were appended; the add_sample call that
\* appends the window_size-th sample (and every further multiple of it) sets
\* window_ready and resets the write position to zero in the same call; any
\* other successful append only advances the write position by one.
C19_WindowCompletion ==
    /\ [](h_added < CONFIG_ML_INFERENCE_WINDOW_SIZE
            => (~window_ready /\ window_pos = h_added))
    /\ [][ (h_lastCall' = "add_sample" /\ pre_ret' = 0 /\ h_added' = h_added + 1)
             => IF h_added' % CONFIG_ML_INFERENCE_WINDOW_SIZE = 0
                THEN window_ready' /\ window_pos' = 0
                ELSE /\ window_ready' = window_ready
                     /\ window_pos' = window_pos + 1 ]_vars
    /\ [][ (~window_ready /\ window_ready')
             => /\ h_lastCall' = "add_sample"
                /\ h_added' % CONFIG_ML_INFERENCE_WINDOW_SIZE = 0
                /\ window_pos = CONFIG_ML_INFERENCE_WINDOW_SIZE - 1 ]_vars

\* C19 witness: a partly filled window was cleared, and the window_size-th
\* append after the clear has just made the window ready with position 0.
C19_Witness ==
    /\ h_lastCall = "add_sample"
    /\ pre_ret = 0
    /\ Len(fed) > h_added
    /\ h_added = CONFIG_ML_INFERENCE_WINDOW_SIZE
    /\ window_ready
    /\ window_pos = 0

\* C20 (take while not ready): preprocessing_get_input called with a non-NULL
\* output of at least ML_INPUT_SIZE bytes while window_ready is false returns
\* -EAGAIN, writes nothing into the output and leaves write position, ready
\* flag, stored samples and DC estimates as they were; -EAGAIN is returned in
\* no other case.
C20_TakeNotReady ==
    /\ [][ (h_lastCall' = "get_input" /\ ~h_outArg'.null
              /\ h_outArg'.size >= ML_INPUT_SIZE /\ ~window_ready)
             => /\ pre_ret' = -ERR.EAGAIN
                /\ UNCHANGED <<input_buffer, preVars, outputs>> ]_vars
    /\ [][ (h_lastCall' = "get_input" /\ pre_ret' = -ERR.EAGAIN)
             => (~window_ready /\ ~h_outArg'.null
                 /\ h_outArg'.size >= ML_INPUT_SIZE) ]_vars

\* C20 witness: a take has returned -EAGAIN while the output still holds the
\* window taken before and a new window is partly filled.
C20_Witness ==
    /\ h_lastCall = "get_input"
    /\ pre_ret = -ERR.EAGAIN
    /\ h_produced = 1
    /\ input_buffer = outputs[1].buf
    /\ input_buffer # EmptyOut
    /\ window_pos > 0
    /\ ~window_ready

\* C21 (take into an undersized buffer): preprocessing_get_input called with
\* a non-NULL output of fewer than ML_INPUT_SIZE bytes returns -ENOSPC whether
\* or not a window is ready, writes nothing into the output and leaves write
\* position, ready flag, stored samples and DC estimates as they were, so a
\* window that was ready is still ready for a later take; -ENOSPC is returned
\* in no other case.
C21_TakeTooSmall ==
    /\ [][ (h_lastCall' = "get_input" /\ ~h_outArg'.null
              /\ h_outArg'.size < ML_INPUT_SIZE)
             => /\ pre_ret' = -ERR.ENOSPC
                /\ window_ready' = window_ready
                /\ UNCHANGED <<input_buffer, preVars, outputs>> ]_vars
    /\ [][ (h_lastCall' = "get_input" /\ pre_ret' = -ERR.ENOSPC)
             => (~h_outArg'.null /\ h_outArg'.size < ML_INPUT_SIZE) ]_vars

\* C21 witness: an undersized take has returned -ENOSPC while a window is
\* ready and not yet taken.
C21_Witness ==
    /\ h_lastCall = "get_input"
    /\ pre_ret = -ERR.ENOSPC
    /\ h_outArg.size = ML_INPUT_SIZE - 1
    /\ window_ready
    /\ h_completed = 1
    /\ h_produced = 0

\* the value (raw - dc) * QUANT_SCALE truncated to an integer, for byte k of a
\* take from the window and the DC estimates of the current state
ScaledDiff(k) ==
    LET s == sample_window[k \div ML_INPUT_AXES]
        raw == <<s.x, s.y, s.z>>[(k % ML_INPUT_AXES) + 1]
        dc == dc_offset[(k % ML_INPUT_AXES) + 1]
        n == (100 * raw - dc) * 127
        d == 16384 * 100
    IN  IF n >= 0 THEN n \div d ELSE -((-n) \div d)

\* C22 (quantization saturates): every byte a successful take writes lies in
\* [-128, 127]; it equals the scaled difference when that is in range, -128
\* when the scaled difference is below -128 and 127 when it is above 127.
C22_QuantizationSaturates ==
    [][ (h_lastCall' = "get_input" /\ pre_ret' = 0
           /\ h_produced' = h_produced + 1)
          => \A k \in 0 .. (ML_INPUT_SIZE - 1) :
               /\ input_buffer'[k] \in -128 .. 127
               /\ ScaledDiff(k) < -128 => input_buffer'[k] = -128
               /\ ScaledDiff(k) > 127 => input_buffer'[k] = 127
               /\ ScaledDiff(k) \in -128 .. 127
                    => input_buffer'[k] = ScaledDiff(k) ]_vars

\* C22 witness: a take has written a byte saturated at 127, one saturated at
\* -128 and one strictly inside the range, other than 0.
C22_Witness ==
    /\ h_lastCall = "get_input"
    /\ pre_ret = 0
    /\ \E k \in 0 .. (ML_INPUT_SIZE - 1) : input_buffer[k] = 127
    /\ \E k \in 0 .. (ML_INPUT_SIZE - 1) : input_buffer[k] = -128
    /\ \E k \in 0 .. (ML_INPUT_SIZE - 1) : input_buffer[k] \notin {-128, 0, 127}

(***************************************************************************)
(* Properties of the result_buffer API (SpecQueue).                        *)
(***************************************************************************)
\* the last n entries of sequence q
Suffix(q, n) == SubSeq(q, Len(q) - n + 1, Len(q))

C4_Fifo ==
    /\ [](Contents = Suffix(q_pushed, count))
    /\ [][ (h_qCall' = "pop" /\ q_ret' = 0)
           => /\ count > 0
              /\ out_result' = Contents[1]
              /\ Contents' = Tail(Contents) ]_vars
    /\ [](\A k \in 1 .. Len(q_popped) :
            /\ q_popped[k].sequence \in 1 .. Len(q_pushed)
            /\ q_popped[k] = q_pushed[q_popped[k].sequence]
            /\ k > 1 => q_popped[k - 1].sequence < q_popped[k].sequence)

\* C4 witness: two pops succeeded after an eviction; the first returned the
\* second result pushed.
C4_Witness ==
    /\ h_qCall = "pop"
    /\ q_ret = 0
    /\ Len(q_pushed) = CONFIG_OUTPUT_RING_BUFFER_SIZE + 1
    /\ Len(q_popped) = 2
    /\ q_popped[1].sequence = 2

\* C16 (pop on an empty queue): result_buffer_pop called with a non-NULL
\* result while count is 0 returns -EAGAIN and leaves buffer, head, tail,
\* count and the caller's result as they were; and it returns -EAGAIN only then.
C16_PopEmpty ==
    /\ [][ (h_qCall' = "pop" /\ h_qArg' = OutArg /\ count = 0)
             => /\ q_ret' = -ERR.EAGAIN
                /\ UNCHANGED <<queueVars, out_result, q_popped>> ]_vars
    /\ [][ (h_qCall' = "pop" /\ q_ret' = -ERR.EAGAIN)
             => (count = 0 /\ h_qArg' = OutArg) ]_vars

\* C16 witness: the queue was drained (the caller's result still holds the
\* last entry popped) and one more pop has returned -EAGAIN.
C16_Witness ==
    /\ h_qCall = "pop"
    /\ q_ret = -ERR.EAGAIN
    /\ Len(q_popped) >= 1
    /\ out_result = q_popped[Len(q_popped)]
    /\ out_result # ZeroResult
    /\ head = tail /\ head # 0

\* C17 (dropped counter): the queue keeps a counter that goes up by exactly 1
\* on every eviction by a push on a full queue and is changed by no other
\* queue operation (so it reads 1 after capacity+1 pushes with no pop).  The
\* scalars the queue keeps are head, tail and count; h_dropCand holds those
\* of them that have behaved as such a counter since result_buffer_init.
C17_DroppedCounter == h_dropCand # {}

AllDone == \A t \in Threads : pc[t] = "done"

\* C5 (gate coalescing): the gate's count is 0 or 1 in every state; it is 1
\* exactly when at least one notify came since the last wait that returned
\* Signaled; a wait returns Signaled exactly when such a notify is pending,
\* and no two waits return Signaled without a notify in between.
C5_GateCoalescing ==
    /\ [](/\ ml_sem \in {0, 1}
          /\ ml_sem = 1 <=> h_gives >= 1
          /\ h_wakes <= 1)
    /\ [][ (pc["ml"] = "take" /\ pc'["ml"] # "take")
           => (h_lastWait' = "Signaled" <=> h_gives >= 1) ]_vars

\* C5 witness: two or more notifies were pending, one wait returned Signaled
\* for all of them, and the wait after it timed out.
C5_Witness ==
    /\ h_coalesced >= 2
    /\ h_lastWait = "TimedOut"
    /\ h_gives = 0
    /\ h_wakes = 1

\* C6 (notify exactly on completion): when a sensor iteration is over, it has
\* called k_sem_give if and only if its add_sample completed a window.
C6_NotifyExactlyOnCompletion ==
    pc["sensor"] = "loop" => (h_iterGave <=> h_iterCompleted)

\* C9 (shutdown liveness): once running is false every thread terminates, and
\* on the way it starts no new iteration: from its loop condition it only
\* leaves, and it evaluates that condition at most once more.
C9_ShutdownLiveness ==
    /\ (~running) ~> AllDone
    /\ [][ ~running => \A t \in Threads :
              pc[t] = "loop" => pc'[t] \in {"loop", "done"} ]_vars
    /\ [](\A t \in Threads : h_checksAfterStop[t] <= 1)

\* C9 witness: the flag was cleared while ml_thread_fn was blocked in the wait
\* and the sensor thread was inside an iteration, and all four have terminated.
C9_Witness ==
    /\ ~running
    /\ h_midWait
    /\ AllDone
    /\ h_lastWait = "TimedOut"

\* C10 (shutdown scenario): when the flag is cleared while ml_thread_fn is
\* blocked in the gate wait, ml_thread_fn pushes no result after that.
C10_NoPushAfterShutdown ==
    h_midWait => h_pushedAfterStop = 0

\* the sequence numbers of q, in order, go strictly up
StrictlyIncreasing(q) ==
    \A i, j \in 1 .. Len(q) : i < j => q[i].sequence < q[j].sequence

\* C11 (pipeline ordering): the results ml_thread_fn pushes carry strictly
\* increasing sequence numbers in push order, every result output_thread_fn
\* pops is one that was pushed, and the popped sequence numbers are strictly
\* increasing.
C11_PipelineOrdering ==
    /\ StrictlyIncreasing(q_pushed)
    /\ StrictlyIncreasing(q_popped)
    /\ \A i \in 1 .. Len(q_popped) : \E j \in 1 .. Len(q_pushed) :
          q_popped[i] = q_pushed[j]

\* C11 witness: two results went through the queue while both threads ran,
\* and output_thread_fn popped number 1 and then number 2.
C11_Witness ==
    /\ Len(q_popped) = 2
    /\ q_popped[1].sequence = 1
    /\ q_popped[2].sequence = 2
    /\ count = 0

\* C13 (queue mutual exclusion): ml_thread_fn inside result_buffer_push and
\* output_thread_fn inside result_buffer_pop are never both between the lock
\* and the unlock of buffer_mutex, whoever is inside holds buffer_mutex, and
\* the queue holds what the pushes and pops done so far leave when applied
\* one after the other: the most recent count pushed results, in push order.
C13_QueueMutualExclusion ==
    /\ ~(pc["ml"] = "push" /\ pc["output"] = "pop")
    /\ pc["ml"] = "push" => mutex["buffer_mutex"] = "ml"
    /\ pc["output"] = "pop" => mutex["buffer_mutex"] = "output"
    /\ Contents = Suffix(q_pushed, count)
    /\ Len(q_popped) + count <= Len(q_pushed)

\* C13 witness: ml_thread_fn is inside the push critical section while
\* output_thread_fn stands at the lock of pop, with a result in the queue.
C13_Witness ==
    /\ pc["ml"] = "push"
    /\ pc["output"] = "pop_lock"
    /\ count >= 1
    /\ mutex["buffer_mutex"] = "ml"

\* C15 (computation failure is dropped): ml_thread_fn pushes exactly the
\* results of the computations that succeeded, and runs a computation
\* exactly for the windows it extracted; a failed extraction or a failed
\* computation sends it back to its loop with the queue as it was.
C15_FailureDropped ==
    /\ [](pc["ml"] \in {"loop", "take", "get_lock", "get", "done"}
            => /\ Len(q_pushed) = h_okCount
               /\ h_produced = h_okCount + ml_stats.invoke_failures)
    /\ [](pc["ml"] \in {"push_lock", "push"} => Len(q_pushed) = h_okCount - 1)
    /\ [][ (pc["ml"] = "infer" /\ pc'["ml"] = "loop")
             => /\ ml_stats'.invoke_failures = ml_stats.invoke_failures + 1
                /\ UNCHANGED <<queueVars, q_pushed, inference_sequence>> ]_vars
    /\ [][ (pc["ml"] = "get" /\ pc'["ml"] = "loop")
             => UNCHANGED <<queueVars, q_pushed, mlVars>> ]_vars

\* C15 witness: one computation failed, a later one succeeded and its result
\* was pushed, and ml_thread_fn is at the wait again.
C15_Witness ==
    /\ pc["ml"] = "take"
    /\ ml_stats.invoke_failures = 1
    /\ Len(q_pushed) = 1
    /\ q_pushed[1].sequence = 1
    /\ h_produced = 2

\* ml_run_inference calls that reached the engine
Invocations == ml_stats.inference_count + ml_stats.invoke_failures

\* C32 (end to end): when a window completes with every window before it
\* already taken (the window is ready and the takes are one short of the
\* completions), and no later window completes before the one before it is
\* taken, the running pipeline comes to a state where the engine has been
\* invoked exactly once for each completed window and, the engine not
\* failing, one result for each has come out of pop, with the sequence
\* numbers 1, 2, ... in order (one window's worth of samples: one invocation
\* and one result with sequence number 1).  Throughout, the invocations never
\* exceed the windows taken nor these the windows completed, and the n-th
\* result pushed carries sequence number n.
C32_EndToEnd ==
    /\ [](/\ Invocations <= h_produced
          /\ h_produced <= Invocations + 1
          /\ h_produced <= h_completed
          /\ \A n \in 1 .. Len(q_pushed) : q_pushed[n].sequence = n)
    /\ (window_ready /\ h_produced = h_completed - 1)
          ~> \/ ~running
             \/ h_produced < h_completed - 1
             \/ /\ Invocations = h_completed
                /\ \/ ml_stats.invoke_failures > 0
                   \/ /\ Len(q_popped) = h_completed
                      /\ \A n \in 1 .. Len(q_popped) : q_popped[n].sequence = n

\* C32 witness: two windows, each taken before the next completed, two
\* invocations, and the results 1 and 2 popped in a running pipeline.
C32_Witness ==
    /\ running
    /\ h_completed = 2
    /\ Invocations = 2
    /\ ml_stats.invoke_failures = 0
    /\ Len(q_popped) = 2
    /\ q_popped[1].sequence = 1
    /\ q_popped[2].sequence = 2

\* C34 (no spurious wake): whenever k_sem_take in ml_thread_fn has returned 0
\* a window is ready: the preprocessing_get_input that follows never returns
\* -EAGAIN (the thread never goes from that call back to its loop without a
\* window).
C34_NoSpuriousWake ==
    [][ (pc["ml"] = "get" /\ h_lastWait = "Signaled") => pc'["ml"] # "loop" ]_vars

\* C35 (no lost wake-up): under the scheduler's fairness, every state in
\* which a window is ready is followed by a successful
\* preprocessing_get_input in ml_thread_fn (nothing else clears window_ready
\* in the running pipeline), unless the shutdown flag is cleared first.
C35_NoLostWakeup == window_ready ~> (~window_ready \/ ~running)

\* C35 witness: the second window was ready with the gate's count at 0 and
\* ml_thread_fn inside its wait, and has been taken since.
C35_Witness ==
    /\ running
    /\ h_completed = 2
    /\ h_produced = 2
    /\ ~window_ready
    /\ h_lastWait = "Signaled"
    /\ pc["ml"] = "infer_lock"

IsPrefix(p, q) == Len(p) <= Len(q) /\ p = SubSeq(q, 1, Len(p))

\* the two ways an iteration of output_thread_fn can go
DrainIterations == { <<"pop", "get_stats", "sink", "sleep">>, <<"empty", "sleep">> }

\* C31 (draining): output_thread_fn calls uart_output_inference only after a
\* pop that returned 0 and after the debug_monitor_get_stats that follows that
\* pop, and hands it the result that pop copied out; the results handed over
\* are results that were pushed, each handed over once, in the order they
\* were popped; after a pop that found the buffer empty it calls neither
\* debug_monitor_get_stats nor uart_output_inference, and it sleeps before it
\* pops again.
C31_Draining ==
    /\ \E it \in DrainIterations : IsPrefix(h_outIter, it)
    /\ (pc["output"] \in {"loop", "done"} /\ h_outIter # << >>)
          => h_outIter[Len(h_outIter)] = "sleep"
    /\ IsPrefix(h_sink, q_popped)
    /\ Len(q_popped) - Len(h_sink) = IF pc["output"] \in {"stats", "uart"} THEN 1 ELSE 0
    /\ (h_sink # << >> /\ pc["output"] = "loop") => h_sink[Len(h_sink)] = out_result
    /\ \A i \in 1 .. Len(h_sink) : \E j \in 1 .. Len(q_pushed) : q_pushed[j] = h_sink[i]
    /\ \A i, j \in 1 .. Len(h_sink) : h_sink[i] = h_sink[j] => i = j

\* C31 witness: two results have gone to the sink and the iteration after
\* them found the buffer empty.
C31_Witness ==
    /\ Len(h_sink) = 2
    /\ h_sink[1].sequence = 1
    /\ h_sink[2].sequence = 2
    /\ h_outIter = <<"empty", "sleep">>
    /\ pc["output"] = "loop"

\* windows ml_thread_fn has taken and not yet handed to the engine
TakenNotRun == IF pc["ml"] \in {"infer_lock", "infer"} THEN 1 ELSE 0

\* C36 (at most once per window): the engine invocations, and the results ever
\* pushed, never exceed the window completions; each invocation runs on a
\* window ml_thread_fn took with a successful preprocessing_get_input (the
\* invocations plus the window taken and not yet run are exactly the windows
\* taken), and the windows taken never exceed the windows completed, so no
\* window is computed twice and nothing is computed without a window.
C36_AtMostOncePerWindow ==
    /\ Invocations <= h_completed
    /\ Len(q_pushed) <= h_completed
    /\ Len(q_pushed) <= ml_stats.inference_count
    /\ Invocations + TakenNotRun = h_produced
    /\ h_produced <= h_completed

\* C36 witness: two windows completed, each computed once and its result
\* pushed, and ml_thread_fn woken once more by a leftover give finds no window.
C36_Witness ==
    /\ h_completed = 2
    /\ h_produced = 2
    /\ Invocations = 2
    /\ Len(q_pushed) = 2
    /\ ~window_ready
    /\ h_lastWait = "Signaled"
    /\ pc["ml"] = "loop"
    /\ ml_sem = 0

\* the mutex a thread is about to take with k_mutex_lock(.., K_FOREVER)
Wanted ==
    [ sensor |-> [read_lock |-> "sensor_mutex", add_lock |-> "preprocess_mutex",
                  ready_lock |-> "preprocess_mutex"],
      ml     |-> [get_lock |-> "preprocess_mutex", infer_lock |-> "ml_mutex",
                  push_lock |-> "buffer_mutex"],
      output |-> [pop_lock |-> "buffer_mutex"],
      debug  |-> [mlstats_lock |-> "ml_mutex"] ]

\* the mutex a thread holds while it is inside a library call
Inside ==
    [ sensor |-> [read |-> "sensor_mutex", add |-> "preprocess_mutex",
                  ready |-> "preprocess_mutex"],
      ml     |-> [get |-> "preprocess_mutex", infer |-> "ml_mutex",
                  push |-> "buffer_mutex"],
      output |-> [pop |-> "buffer_mutex"],
      debug  |-> [mlstats |-> "ml_mutex"] ]

Held(t) == { m \in Mutexes : mutex[m] = t }

\* thread t waits in k_mutex_lock for a mutex another context holds
Blocked(t) ==
    /\ pc[t] \in DOMAIN Wanted[t]
    /\ mutex[Wanted[t][pc[t]]] # "none"

\* C37 (deadlock freedom): no thread holds two of the four mutexes; a thread
\* holds a mutex exactly while it is inside the library call that took it, so
\* every call has released it when it returns, whatever it returns; a thread
\* waiting for a mutex waits for one whose holder is not waiting itself; hence
\* in no state are all the threads that have not finished blocked on mutexes.
C37_DeadlockFree ==
    /\ \A t \in Threads : Cardinality(Held(t)) <= 1
    /\ \A t \in Threads :
         Held(t) = IF pc[t] \in DOMAIN Inside[t] THEN {Inside[t][pc[t]]} ELSE {}
    /\ \A t \in Threads :
         Blocked(t) => /\ mutex[Wanted[t][pc[t]]] \in Threads \ {t}
                       /\ ~Blocked(mutex[Wanted[t][pc[t]]])
    /\ (\E t \in Threads : pc[t] # "done")
          => \E t \in Threads : pc[t] # "done" /\ ~Blocked(t)

\* C37 witness: after ml_run_inference has returned on its error path, three
\* mutexes are held by three threads at once and ml_thread_fn waits for one
\* of them.
C37_Witness ==
    /\ mutex["preprocess_mutex"] = "sensor"
    /\ mutex["ml_mutex"] = "debug"
    /\ mutex["buffer_mutex"] = "output"
    /\ Blocked("ml")
    /\ ml_stats.invoke_failures = 1

(***************************************************************************)
(* Structure of the result queue (SpecQueue).                              *)
(***************************************************************************)
\* C38 (queue structure): after any sequence of init, push and pop the count
\* is between 0 and the capacity, head and tail are slot indices, head is
\* tail + count modulo the capacity, result_buffer_empty returns true exactly
\* when the count is 0, result_buffer_full exactly when it is the capacity,
\* and result_buffer_count returns the count.
C38_QueueStructure ==
    /\ count \in 0 .. CONFIG_OUTPUT_RING_BUFFER_SIZE
    /\ head \in 0 .. CONFIG_OUTPUT_RING_BUFFER_SIZE - 1
    /\ tail \in 0 .. CONFIG_OUTPUT_RING_BUFFER_SIZE - 1
    /\ head = (tail + count) % CONFIG_OUTPUT_RING_BUFFER_SIZE
    /\ h_qCall = "empty" => (q_ret = 1 <=> count = 0)
    /\ h_qCall = "full" => (q_ret = 1 <=> count = CONFIG_OUTPUT_RING_BUFFER_SIZE)
    /\ h_qCall = "count" => q_ret = count

\* C38 witness: result_buffer_full returns true for a queue that has wrapped:
\* a push evicted the oldest entry, so head and tail meet away from slot 0.
C38_Witness ==
    /\ h_qCall = "full"
    /\ q_ret = 1
    /\ count = CONFIG_OUTPUT_RING_BUFFER_SIZE
    /\ tail # 0
    /\ head = tail
    /\ Len(q_popped) > 0

(***************************************************************************)
(* Properties of the inference API (SpecMl).                               *)
(***************************************************************************)
\* C12 (sequence numbers): inference_sequence is the number of computations
\* that succeeded so far, so a failed or rejected computation consumes none;
\* the n-th successful computation hands out sequence number n, starting at 1.
C12_SequenceNumbers ==
    /\ inference_sequence = h_okCount
    /\ (h_mlCall = "run" /\ ml_ret = ML_STATUS.OK)
          => (m_result.sequence = h_okCount /\ h_okCount >= 1)
    /\ (h_mlCall = "run" /\ ml_ret # ML_STATUS.OK)
          => m_result.sequence <= h_okCount

\* C12 witness: a computation failed in the engine, two succeeded, and the
\* last call handed out sequence number 2.
C12_Witness ==
    /\ h_mlCall = "run"
    /\ ml_ret = ML_STATUS.OK
    /\ ml_stats.invoke_failures >= 1
    /\ m_result.sequence = 2

(***************************************************************************)
(* Properties of the resource monitor (SpecMon).                           *)
(***************************************************************************)
\* C14 (monitor registry sharing): no two threads are about to access the
\* same field of the registry with one of them writing, and the only thread
\* that writes a field is debug_thread_fn inside debug_monitor_check.
C14_MonitorRegistrySharing ==
    /\ \A t1, t2 \in MonThreads :
          (t1 # t2 /\ MonAccess(t1)[1] # "none"
                   /\ MonAccess(t1)[1] = MonAccess(t2)[1])
             => (MonAccess(t1)[2] = "read" /\ MonAccess(t2)[2] = "read")
    /\ \A t \in MonThreads :
          MonAccess(t)[2] = "write"
             => (t = "debug" /\ mon_pc[t] = "ck_write_warn")

\* C26 (peak usage is monotone): the peak usage recorded for the registered
\* thread never decreases, whatever usage values the calls of
\* debug_monitor_check and debug_monitor_get_stats read.
C26_PeakMonotone == [][peak_usage' >= peak_usage]_vars

(***************************************************************************)
(* Properties of the monitor's registry (SpecReg).                         *)
(***************************************************************************)
\* C23 (bounded registration): the registered count stays within
\* [0, MAX_MONITORED_THREADS]; a register_thread call with a thread and a
\* name succeeds while fewer than MAX_MONITORED_THREADS are registered,
\* filling the next slot with peak usage 0, and past that returns -ENOSPC and
\* leaves the table and its count unchanged.
C23_RegistrationBounded ==
    /\ [](monitored_count \in 0 .. MAX_MONITORED_THREADS)
    /\ [][ (h_monCall' = "register" /\ h_monArg'.thread # NullPtr
              /\ h_monArg'.name # NullPtr)
             => IF monitored_count < MAX_MONITORED_THREADS
                THEN /\ mon_ret' = 0
                     /\ monitored_count' = monitored_count + 1
                     /\ monitored' = [monitored EXCEPT ![monitored_count] =
                                        [thread |-> h_monArg'.thread,
                                         name |-> h_monArg'.name,
                                         stack_size |-> 0, peak_usage |-> 0]]
                ELSE /\ mon_ret' = -ERR.ENOSPC
                     /\ UNCHANGED <<monitored, monitored_count>> ]_vars
    /\ [](h_monCall = "register" /\ mon_ret = -ERR.ENOSPC
            => monitored_count = MAX_MONITORED_THREADS)

\* C23 witness: the table is full, one of its entries has a recorded peak,
\* and one more registration has been refused with -ENOSPC.
C23_Witness ==
    /\ h_monCall = "register"
    /\ mon_ret = -ERR.ENOSPC
    /\ h_monArg.thread # NullPtr
    /\ monitored_count = MAX_MONITORED_THREADS
    /\ \A i \in MonIdx : monitored[i].thread # NullPtr
    /\ \E i \in MonIdx : monitored[i].peak_usage > 0

\* the registered slots whose stack the last pass read at more than 80
\* percent of its size (used / size > 0.8, in exact arithmetic)
OverEightyPercentNext ==
    {i \in Registered :
        /\ h_read'[monitored[i].thread].ret = 0
        /\ h_read'[monitored[i].thread].used * 100
             > STACK_WARNING_THRESHOLD * StackSize(monitored[i].thread)}

\* C24 (threshold warning): one pass of debug_monitor_check adds to
\* total_stack_warnings one for each registered thread whose stack usage
\* exceeds 80 percent of its size, returns a negative status if there is at
\* least one such thread, and returns 0 with the counter unchanged otherwise.
C24_ThresholdWarning ==
    [][ (h_monCall' = "check" /\ monitor_initialized)
          => /\ total_stack_warnings'
                  = total_stack_warnings + Cardinality(OverEightyPercentNext)
             /\ OverEightyPercentNext # {} => mon_ret' < 0
             /\ OverEightyPercentNext = {}
                  => (mon_ret' = 0 /\ UNCHANGED total_stack_warnings) ]_vars

\* C25 (threshold stickiness): a registered thread is Healthy until a check
\* finds its usage over the threshold and is reported as Warned by every
\* later snapshot, whatever its usage is by then.  Stated for the snapshot
\* that follows the check which raised the first warnings: one of the fields
\* that depend on stack usage (SnapshotFields) shows exactly the threads that
\* check found over the threshold as over it.
C25_StickyWarned ==
    [][ (/\ h_monCall = "check" /\ mon_ret = -ERR.ENOSPC
         /\ total_stack_warnings = Cardinality(OverThreshold(h_read))
         /\ h_monCall' = "get_stats" /\ mon_ret' = 0)
          => \E f \in SnapshotFields :
                \A i \in Registered :
                   SnapshotReportsNext(f, i) <=> (i \in OverThreshold(h_read)) ]_vars

\* the bytes the last pass read as used for slot i (0 when the read failed)
UsageReadNext(i) ==
    IF h_read'[monitored[i].thread].ret = 0
    THEN h_read'[monitored[i].thread].used ELSE 0

\* C27 (check records peaks): after one pass of debug_monitor_check the peak
\* usage recorded for each registered thread is the larger of its previous
\* peak and the usage this pass read for it.
C27_CheckRecordsPeaks ==
    [][ (h_monCall' = "check" /\ monitor_initialized)
          => \A i \in Registered :
                monitored'[i].peak_usage
                  = (IF UsageReadNext(i) > monitored[i].peak_usage
                     THEN UsageReadNext(i) ELSE monitored[i].peak_usage) ]_vars

\* C28 (snapshot without side effects): a call of debug_monitor_get_stats
\* leaves the registry entries with their peak usage, the registered count,
\* the initialized flag and the warning counter as they were.
C28_SnapshotNoSideEffects ==
    [][ h_monCall' = "get_stats"
          => UNCHANGED <<monitored, monitored_count, monitor_initialized,
                         total_stack_warnings>> ]_vars

\* the registered slots whose stack the last pass could not read
ReadFailedNext == {i \in Registered : h_read'[monitored[i].thread].ret # 0}

\* C29 (read-failure isolation): in a pass of debug_monitor_check in which the
\* stack of some registered thread cannot be read, that thread counts as
\* using nothing and raises no warning, and every other registered thread is
\* still examined: the counter goes up by one for each of them whose usage
\* exceeds 80 percent of its stack, and the status is negative exactly when
\* there is one.
C29_ReadFailureIsolation ==
    [][ (h_monCall' = "check" /\ monitor_initialized /\ ReadFailedNext # {})
          => /\ \A i \in ReadFailedNext : UsageReadNext(i) = 0
             /\ ReadFailedNext \cap OverEightyPercentNext = {}
             /\ total_stack_warnings'
                  = total_stack_warnings + Cardinality(OverEightyPercentNext)
             /\ (mon_ret' < 0) <=> (OverEightyPercentNext # {}) ]_vars

\* C30 (record lifetime): an entry created by a successful register_thread
\* stays registered, with the same thread and name, through every later
\* call of init, register_thread, check, healthy and get_stats.
C30_RecordLifetime ==
    [][ \A i \in Registered :
          /\ i < monitored_count'
          /\ monitored'[i].thread = monitored[i].thread
          /\ monitored'[i].name = monitored[i].name ]_vars

(***************************************************************************)
(* Properties of the timing API (SpecTime).                                *)
(***************************************************************************)

\* C33 (wraparound-safe elapsed time): for the cycle count start that
\* profile_timing_start returned and the cycle count end that
\* profile_timing_end reads, elapsed_cycles is (end - start) mod 2^32, the one
\* 32-bit value that added to start gives end with the carry out of bit 31
\* dropped, also when end < start (the counter wrapped once); the value
\* returned is elapsed_cycles divided by cycles_per_us (elapsed_cycles itself
\* while cycles_per_us is 0).
C33_WraparoundElapsed ==
    h_timeCall = "end"
      => /\ Add32(t_start, t_elapsed) = t_end
         /\ t_elapsed[1] \in 0 .. (HALF - 1) /\ t_elapsed[2] \in 0 .. (HALF - 1)
         /\ Ge32(t_end, t_start) => t_elapsed = Sub32(t_end, t_start)
         /\ t_ret = IF cycles_per_us > 0 THEN Div32(t_elapsed, cycles_per_us)
                    ELSE t_elapsed
         /\ cycles_per_us > 0
              => LET rem == Sub32(t_elapsed, Mul32(t_ret, cycles_per_us))
                 IN  rem[1] = 0 /\ rem[2] < cycles_per_us

\* C33 witness: the counter wrapped between the two readings (start is
\* 2^32 - 2, end is 1000) with 25 cycles per microsecond: 1002 cycles, 40 us.
C33_Witness ==
    /\ h_timeCall = "end"
    /\ cycles_per_us = 25
    /\ t_start = U32(65535, 65534)
    /\ t_end = U32(0, 1000)
    /\ t_elapsed = U32(0, 1002)
    /\ t_ret = U32(0, 40)

RECURSIVE SeqSum(_)
SeqSum(q) == IF q = << >> THEN 0 ELSE q[1] + SeqSum(Tail(q))

SeqMin(q) == CHOOSE m \in {q[i] : i \in 1 .. Len(q)} : \A i \in 1 .. Len(q) : m <= q[i]

SeqMax(q) == CHOOSE m \in {q[i] : i \in 1 .. Len(q)} : \A i \in 1 .. Len(q) : m >= q[i]

\* C40 (timing statistics): after profile_timing_stats_reset and n >= 1 calls
\* of profile_timing_record, whatever the durations (0 included), count is n,
\* total_us is the sum of the durations, min_us the smallest and max_us the
\* largest of them, and avg_us is total_us / n rounded down.
C40_TimingStatistics ==
    h_durations # << >>
      => /\ timing_stats.count = Len(h_durations)
         /\ timing_stats.total_us = SeqSum(h_durations)
         /\ timing_stats.min_us = SeqMin(h_durations)
         /\ timing_stats.max_us = SeqMax(h_durations)
         /\ timing_stats.avg_us = SeqSum(h_durations) \div Len(h_durations)

(***************************************************************************)
(* Properties of the mock sensor (SpecMock).                               *)
(***************************************************************************)
\* the order the comment of select_next_gesture and the README give
DocumentedOrder == <<MOCK_GESTURE_WAVE, MOCK_GESTURE_TAP, MOCK_GESTURE_CIRCLE,
                     MOCK_GESTURE_WAVE>>

\* C39 (gesture order): the gestures that mock_accel_read has started since
\* mock_accel_init are, in order, WAVE, TAP, CIRCLE and WAVE again, and none
\* of them is IDLE.
C39_GestureOrder ==
    /\ \A i \in 1 .. Len(h_started) : h_started[i] # MOCK_GESTURE_IDLE
    /\ Len(h_started) <= Len(DocumentedOrder)
          => IsPrefix(h_started, DocumentedOrder)

=============================================================================
